---- MODULE Spec2Model ----
(***************************************************************************)
(* loopana: a loop-nest transformer (Tiling / Renaming / Reorder over an   *)
(* affine IR) and a feature-gated pass pipeline over a workspace of        *)
(* properties.                                                             *)
(*                                                                         *)
(* Four specifications live in this module:                                *)
(*   Spec   - Workspace + PassPipeline (src/src/passes/workspace.rs,       *)
(*            pass_pipeline.rs and the concrete passes);                   *)
(*   SpecT  - Transforming::apply / apply_all on a LoopNest                *)
(*            (src/src/passes/transform_pass.rs), followed by the          *)
(*            Serialize / Deserialize of the nest (loops.rs);              *)
(*   SpecR  - to_string followed by the parser, for an AffineExpr and an   *)
(*            Instruction (affine_expr.rs, instruction.rs);                *)
(*   SpecS  - Coeff::normalize, Coeff::simplify and AffineExpr::simplify   *)
(*            applied to one value (affine_expr.rs).                       *)
(* A Rust panic is modelled as a value [tag |-> "Panic", kind |-> ...]     *)
(* returned in place of the result.                                       *)
(***************************************************************************)
EXTENDS Integers, Sequences, FiniteSets, TLC

VARIABLES
    \* ---- Transforming::apply_all (SpecT) ----
    t_self,        \* the receiver `self` of apply_all: a LoopNest
    t_script,      \* transforms.transforms: the script
    t_pc,          \* position of apply_all: "call", "loop", "returned", "panicked", "off"
    t_k,           \* number of transforms of the script consumed by the for loop
    new_self,      \* the local `new_self` of apply_all (a LoopNest or a Panic)
    t_prev,        \* history: value of new_self before the latest apply
    t_last,        \* history: the transform of the latest apply
    \* ---- Workspace + PassPipeline (Spec) ----
    loop_nest,            \* Workspace.loop_nest
    arch,                 \* Workspace.arch
    iter_properties,      \* Workspace.iter_properties : Vec<Vec<..>>
    inst_properties,      \* Workspace.inst_properties : Vec<Vec<..>>
    loop_properties,      \* Workspace.loop_properties
    workspace_properties, \* Workspace.workspace_properties
    available_features,   \* Workspace.available_features : Vec<Feature> (names)
    passes,               \* PassPipeline.passes
    status,               \* position of PassPipeline::run
    idx,                  \* index (1-based) of the pass the for loop is at
    err,                  \* the Err(..) returned by run, or NoErr
    trace,                \* history: the checks and runs performed, in order
    pre,                  \* history: the property sequences when run was called
    snap,                 \* history: the property sequences after the latest successful pass
    nest0,                \* history: the loop nest given to Workspace::new
    registered,           \* history: the passes in the order of the register_pass calls
    last_add,             \* history: the latest add_*_property call of the caller and its result
    \* ---- Display / parse round trips (SpecR) ----
    r_in,          \* the value given to Display, simplify or normalize
    r_text,        \* the text Display wrote, as a sequence of tokens
    r_out,         \* what the parser, simplify or normalize returned
    r_pc           \* "start", "printed", "parsed", "simplified", ..., or "off"

tvars == <<t_self, t_script, t_pc, t_k, new_self, t_prev, t_last>>
wvars == <<loop_nest, arch, iter_properties, inst_properties, loop_properties,
           workspace_properties, available_features>>
pvars == <<passes, status, idx, err, trace, pre, snap, nest0, registered>>
rvars == <<r_in, r_text, r_out, r_pc>>
vars == <<tvars, wvars, pvars, last_add, rvars>>

----------------------------------------------------------------------------
(* Sequence helpers                                                        *)

SeqMap(F(_), s) == [i \in 1..Len(s) |-> F(s[i])]

IsPrefix(s, t) == Len(s) <= Len(t) /\ \A i \in 1..Len(s) : s[i] = t[i]

RECURSIVE Flatten(_)
Flatten(ss) == IF ss = <<>> THEN <<>> ELSE Head(ss) \o Flatten(Tail(ss))

MinOf(S) == CHOOSE x \in S : \A y \in S : x <= y

\* a faulty insert: the element at index is overwritten
VecInsert_overwrite(s, index, e) == [i \in 1..Len(s) |-> IF i = index + 1 THEN e ELSE s[i]]

\* Vec::insert(index, element) with a 0-based index
VecInsert(s, index, e) == SubSeq(s, 1, index) \o <<e>> \o SubSeq(s, index + 1, Len(s))

\* a faulty swap: the element at b is copied to a, the one at a is lost
VecSwap_copy(s, a, b) == [i \in 1..Len(s) |-> IF i = a + 1 THEN s[b + 1] ELSE s[i]]

\* slice::swap(a, b) with 0-based indices
VecSwap(s, a, b) ==
    [i \in 1..Len(s) |-> IF i = a + 1 THEN s[b + 1] ELSE IF i = b + 1 THEN s[a + 1] ELSE s[i]]

\* Iterator::position: 0-based index of the first match; the set is empty for None
Positions(s, P(_)) == {i \in 1..Len(s) : P(s[i])}

----------------------------------------------------------------------------
(* The IR: AffineExpr, Coeff, Instruction, LoopIter, LoopNest, Transform   *)

CConst(v) == [tag |-> "Const", val |-> v]
CConstVar(n) == [tag |-> "ConstVar", name |-> n]
CMul(l, r) == [tag |-> "Mul", lhs |-> l, rhs |-> r]

Var(n) == [tag |-> "Var", name |-> n]
Const(v) == [tag |-> "Const", val |-> v]
Add(l, r) == [tag |-> "Add", lhs |-> l, rhs |-> r]
Sub(l, r) == [tag |-> "Sub", lhs |-> l, rhs |-> r]
Mul(c, e) == [tag |-> "Mul", coeff |-> c, expr |-> e]
Div(e, c) == [tag |-> "Div", expr |-> e, coeff |-> c]
Mod(e, c) == [tag |-> "Mod", expr |-> e, coeff |-> c]

Reg(r) == [tag |-> "Reg", reg |-> r]
Imm(i) == [tag |-> "Imm", imm |-> i]

DataAccess(array, addr, reg) ==
    [array_name |-> array, addr |-> addr, reg |-> reg, cond_suffix |-> "None", cond |-> "None"]
DataLoad(da) == [tag |-> "DataLoad", access |-> da]
DataStore(da) == [tag |-> "DataStore", access |-> da]
Compute(op, src, dst) ==
    [tag |-> "Compute", op |-> op, src |-> src, dst |-> dst, cond_suffix |-> "None", cond |-> "None"]

LoopIter(name, lo, hi, step) == [iter_name |-> name, bounds |-> <<lo, hi>>, step |-> step]
LoopNest(iters, body) == [tag |-> "LoopNest", iters |-> iters, body |-> body, properties |-> "None"]

Tiling(old, new, factor) == [tag |-> "Tiling", old |-> old, new |-> new, factor |-> factor]
Renaming(old, new) == [tag |-> "Renaming", old |-> old, new |-> new]
Reorder(a, b) == [tag |-> "Reorder", iter1 |-> a, iter2 |-> b]
MapSpatial(iter) == [tag |-> "MapSpatial", iter |-> iter]
MapTemporal(iter) == [tag |-> "MapTemporal", iter |-> iter]

Panic(kind, info) == [tag |-> "Panic", kind |-> kind, info |-> info]
IsPanic(x) == x.tag = "Panic"

----------------------------------------------------------------------------
(* impl Transforming for Coeff (transform_pass.rs 21-52)                   *)

\* a faulty Coeff::apply: the operands of a Coeff::Mul are cloned, not visited
Coeff_panics_shallow(c, t) == c.tag = "ConstVar" /\ t.tag = "Tiling" /\ c.name = t.old

\* TRUE iff Coeff::apply panics: a ConstVar equal to the tiled iterator
RECURSIVE Coeff_panics(_, _)
Coeff_panics(c, t) ==
    CASE c.tag = "Const" -> FALSE
      [] c.tag = "ConstVar" -> t.tag = "Tiling" /\ c.name = t.old
      [] c.tag = "Mul" -> Coeff_panics(c.lhs, t) \/ Coeff_panics(c.rhs, t)

\* a faulty Coeff::apply: the Renaming arm of ConstVar is missing
RECURSIVE Coeff_apply_no_renaming(_, _)
Coeff_apply_no_renaming(c, t) ==
    CASE c.tag = "Const" -> c
      [] c.tag = "ConstVar" -> c
      [] c.tag = "Mul" -> CMul(Coeff_apply_no_renaming(c.lhs, t), Coeff_apply_no_renaming(c.rhs, t))

RECURSIVE Coeff_apply(_, _)
Coeff_apply(c, t) ==
    CASE c.tag = "Const" -> c
      [] c.tag = "ConstVar" ->
            IF t.tag = "Renaming" /\ c.name = t.old THEN CConstVar(t.new) ELSE c
      [] c.tag = "Mul" -> CMul(Coeff_apply(c.lhs, t), Coeff_apply(c.rhs, t))

(* impl Transforming for AffineExpr (transform_pass.rs 54-119)             *)

RECURSIVE AffineExpr_panics(_, _)
AffineExpr_panics(e, t) ==
    CASE e.tag \in {"Var", "Const"} -> FALSE
      [] e.tag \in {"Add", "Sub"} -> AffineExpr_panics(e.lhs, t) \/ AffineExpr_panics(e.rhs, t)
      [] e.tag \in {"Mul", "Div", "Mod"} -> Coeff_panics(e.coeff, t) \/ AffineExpr_panics(e.expr, t)

\* faulty Var arms: the Tiling arm rewrites a Var whatever its name
AffineExpr_apply_Var_any(e, t) ==
    CASE t.tag = "Tiling" -> Add(Mul(CConst(t.factor), Var(t.new)), Var(e.name))
      [] t.tag = "Renaming" -> IF e.name = t.old THEN Var(t.new) ELSE e
      [] t.tag = "Reorder" -> e

\* the three (AffineExpr::Var, _) arms
AffineExpr_apply_Var(e, t) ==
    CASE t.tag = "Tiling" ->
            IF e.name = t.old
            THEN Add(Mul(CConst(t.factor), Var(t.new)), Var(e.name))
            ELSE e
      [] t.tag = "Renaming" -> IF e.name = t.old THEN Var(t.new) ELSE e
      [] t.tag = "Reorder" -> e

RECURSIVE AffineExpr_apply(_, _)
AffineExpr_apply(e, t) ==
    CASE e.tag = "Var" -> AffineExpr_apply_Var(e, t)
      [] e.tag = "Const" -> e
      [] e.tag = "Add" -> Add(AffineExpr_apply(e.lhs, t), AffineExpr_apply(e.rhs, t))
      [] e.tag = "Sub" -> Sub(AffineExpr_apply(e.lhs, t), AffineExpr_apply(e.rhs, t))
      [] e.tag = "Mul" -> Mul(Coeff_apply(e.coeff, t), AffineExpr_apply(e.expr, t))
      [] e.tag = "Div" -> Div(AffineExpr_apply(e.expr, t), Coeff_apply(e.coeff, t))
      [] e.tag = "Mod" -> Mod(AffineExpr_apply(e.expr, t), Coeff_apply(e.coeff, t))

(* impl Transforming for Compute (transform_pass.rs 121-126)               *)
Compute_apply(c, t) == c

(* impl Transforming for DataAccess (transform_pass.rs 135-163)            *)

\* what one index of `addr` pushes onto new_addr
DataAccess_apply_idx(e, t) ==
    IF t.tag = "Tiling" /\ e.tag = "Var"
    THEN IF e.name = t.old THEN <<e, Var(t.new)>> ELSE <<AffineExpr_apply(e, t)>>
    ELSE <<AffineExpr_apply(e, t)>>

DataAccess_panics(da, t) == \E i \in 1..Len(da.addr) : AffineExpr_panics(da.addr[i], t)

DataAccess_apply(da, t) ==
    [array_name |-> da.array_name,
     addr |-> Flatten([i \in 1..Len(da.addr) |-> DataAccess_apply_idx(da.addr[i], t)]),
     reg |-> da.reg,
     cond_suffix |-> da.cond_suffix,
     cond |-> da.cond]

(* impl Transforming for Instruction (transform_pass.rs 165-182)           *)

Instruction_panics(inst, t) ==
    inst.tag \in {"DataLoad", "DataStore"} /\ DataAccess_panics(inst.access, t)

Instruction_apply(inst, t) ==
    CASE inst.tag = "DataLoad" -> DataLoad(DataAccess_apply(inst.access, t))
      [] inst.tag = "DataStore" -> DataStore(DataAccess_apply(inst.access, t))
      [] inst.tag = "Compute" -> Compute_apply(inst, t)

(* impl Transforming for LoopIter (transform_pass.rs 184-220)              *)

LoopIter_panics_lo(it, t) ==
    /\ t.tag = "Tiling"
    /\ it.iter_name = t.old
    /\ (t.factor = 0 \/ it.bounds[1] % t.factor # 0)

\* `self.bounds.1 % factor` panics for factor 0; the explicit panic! is taken
\* when the remainder is not 0
LoopIter_panics(it, t) ==
    /\ t.tag = "Tiling"
    /\ it.iter_name = t.old
    /\ (t.factor = 0 \/ it.bounds[2] % t.factor # 0)

LoopIter_panic(it, t) ==
    IF t.factor = 0
    THEN Panic("RemainderByZero", <<>>)
    ELSE Panic("NonDivisibleTile", <<it.iter_name, it.bounds[2], t.factor>>)

LoopIter_apply_tiled_lo0(it, t) ==
    CASE t.tag = "Tiling" ->
            IF it.iter_name = t.old
            THEN LoopIter(t.old, 0, it.bounds[2] \div t.factor, it.step)
            ELSE it
      [] t.tag = "Renaming" ->
            IF it.iter_name = t.old THEN LoopIter(t.new, it.bounds[1], it.bounds[2], it.step) ELSE it
      [] t.tag = "Reorder" -> it

LoopIter_apply(it, t) ==
    CASE t.tag = "Tiling" ->
            IF it.iter_name = t.old
            THEN LoopIter(t.old, it.bounds[1], it.bounds[2] \div t.factor, it.step)
            ELSE it
      [] t.tag = "Renaming" ->
            IF it.iter_name = t.old THEN LoopIter(t.new, it.bounds[1], it.bounds[2], it.step) ELSE it
      [] t.tag = "Reorder" -> it

(* impl Transforming for LoopProperties (transform_pass.rs 222-257)        *)
LoopProperties_apply(p, t) == p

(* impl Transforming for LoopNest (transform_pass.rs 259-365)              *)

\* the panic of the first element a `.map(..).collect()` reaches, iters before body
LoopNest_map_panic(x, t) ==
    LET badIt == {i \in 1..Len(x.iters) : LoopIter_panics(x.iters[i], t)}
    IN  IF badIt # {}
        THEN LoopIter_panic(x.iters[MinOf(badIt)], t)
        ELSE IF \E i \in 1..Len(x.body) : Instruction_panics(x.body[i], t)
        THEN Panic("TileOverCoeffVar", <<t.old>>)
        ELSE Panic("None", <<>>)

\* a faulty Tiling arm: a nest without the iterator is returned as mapped
LoopNest_apply_Tiling_skip_missing(x, t) ==
    LET mp == LoopNest_map_panic(x, t)
        new_iters == SeqMap(LAMBDA it : LoopIter_apply(it, t), x.iters)
        new_body == SeqMap(LAMBDA inst : Instruction_apply(inst, t), x.body)
        found == Positions(x.iters, LAMBDA it : it.iter_name = t.old)
        new_iter == LoopIter(t.new, 0, t.factor, x.iters[MinOf(found)].step)
        pos == Positions(new_iters, LAMBDA it : it.iter_name = t.old)
    IN  IF mp.kind # "None" THEN mp
        ELSE [tag |-> "LoopNest",
              iters |-> IF found = {} THEN new_iters
                        ELSE VecInsert(new_iters, (MinOf(pos) - 1) + 1, new_iter),
              body |-> new_body,
              properties |-> LoopProperties_apply(x.properties, t)]

LoopNest_apply_Tiling(x, t) ==
    LET mp == LoopNest_map_panic(x, t)
        new_iters == SeqMap(LAMBDA it : LoopIter_apply(it, t), x.iters)
        new_body == SeqMap(LAMBDA inst : Instruction_apply(inst, t), x.body)
        new_properties == LoopProperties_apply(x.properties, t)
        found == Positions(x.iters, LAMBDA it : it.iter_name = t.old)
        new_iter == LoopIter(t.new, 0, t.factor, x.iters[MinOf(found)].step)
        pos == Positions(new_iters, LAMBDA it : it.iter_name = t.old)
    IN  IF mp.kind # "None" THEN mp
        ELSE IF found = {} THEN Panic("UnwrapNone", <<t.old>>)
        ELSE [tag |-> "LoopNest",
              iters |-> VecInsert(new_iters, (MinOf(pos) - 1) + 1, new_iter),
              body |-> new_body,
              properties |-> new_properties]

\* a faulty Reorder arm: the first iterator is exchanged with the outermost one
LoopNest_apply_Reorder_outermost(x, t) ==
    LET new_iters == SeqMap(LAMBDA it : LoopIter_apply(it, t), x.iters)
        new_body == SeqMap(LAMBDA inst : Instruction_apply(inst, t), x.body)
        pos1 == Positions(new_iters, LAMBDA it : it.iter_name = t.iter1)
        pos2 == Positions(new_iters, LAMBDA it : it.iter_name = t.iter2)
    IN  IF pos1 = {} THEN Panic("IterNotFound", <<"first", t.iter1>>)
        ELSE IF pos2 = {} THEN Panic("IterNotFound", <<"second", t.iter2>>)
        ELSE [tag |-> "LoopNest",
              iters |-> VecSwap(new_iters, MinOf(pos1) - 1, 0),
              body |-> new_body,
              properties |-> LoopProperties_apply(x.properties, t)]

LoopNest_apply_Reorder(x, t) ==
    LET new_iters == SeqMap(LAMBDA it : LoopIter_apply(it, t), x.iters)
        new_body == SeqMap(LAMBDA inst : Instruction_apply(inst, t), x.body)
        new_properties == LoopProperties_apply(x.properties, t)
        pos1 == Positions(new_iters, LAMBDA it : it.iter_name = t.iter1)
        pos2 == Positions(new_iters, LAMBDA it : it.iter_name = t.iter2)
    IN  IF pos1 = {} THEN Panic("IterNotFound", <<"first", t.iter1>>)
        ELSE IF pos2 = {} THEN Panic("IterNotFound", <<"second", t.iter2>>)
        ELSE [tag |-> "LoopNest",
              iters |-> VecSwap(new_iters, MinOf(pos1) - 1, MinOf(pos2) - 1),
              body |-> new_body,
              properties |-> new_properties]

LoopNest_apply_Renaming(x, t) ==
    [tag |-> "LoopNest",
     iters |-> SeqMap(LAMBDA it : LoopIter_apply(it, t), x.iters),
     body |-> SeqMap(LAMBDA inst : Instruction_apply(inst, t), x.body),
     properties |-> LoopProperties_apply(x.properties, t)]

\* The match has the arms Tiling, Reorder and Renaming; nothing in
\* transform_pass.rs handles MapSpatial or MapTemporal, and
\* LoopProperties::apply returns its receiver for every transform: no nest
\* with an updated mapping is produced.
LoopNest_apply(x, t) ==
    CASE t.tag = "Tiling" -> LoopNest_apply_Tiling(x, t)
      [] t.tag = "Reorder" -> LoopNest_apply_Reorder(x, t)
      [] t.tag = "Renaming" -> LoopNest_apply_Renaming(x, t)
      [] OTHER -> Panic("NoMatchArm", <<t.tag, t.iter>>)


----------------------------------------------------------------------------
(* Inputs of the transform specification                                   *)

MaxScript == 2

VarExprs == {Var("n"), Var("m")}
LeafExprs == VarExprs \cup {Const(3)}
Coeffs == {CConst(2), CConstVar("M_a")}

\* address expressions: the leaves and every operator over leaves
AddrExprs ==
    LeafExprs
    \cup {Add(a, b) : a \in VarExprs, b \in LeafExprs}
    \cup {Sub(a, b) : a \in LeafExprs, b \in VarExprs}
    \cup {Mul(c, a) : c \in Coeffs, a \in VarExprs}
    \cup {Div(a, c) : a \in VarExprs, c \in Coeffs}
    \cup {Mod(a, c) : a \in VarExprs, c \in {CMul(CConst(2), CConstVar("M_a"))}}
    \cup {Add(Mul(CConst(2), Var("n")), Var("n")), Mul(CConstVar("n"), Var("m"))}

Addrs ==
    {<<e>> : e \in AddrExprs}
    \cup {<<a, b>> : a \in VarExprs, b \in VarExprs}
    \cup {<<Var("m"), Sub(Var("n"), Const(3))>>}

Bodies ==
    {<<DataLoad(DataAccess("B", a, "Rb"))>> : a \in Addrs}
    \cup {<<DataLoad(DataAccess("A", <<Var("m"), Var("n")>>, "Ra")),
            Compute("cmp", <<Reg("Ra"), Imm(0)>>, "Rcmp"),
            DataStore(DataAccess("C", <<Var("n")>>, "Ra"))>>}

IterLists ==
    { <<LoopIter("n", 0, 8, 1)>>,
      <<LoopIter("m", 0, 6, 1), LoopIter("n", 2, 12, 2)>>,
      <<LoopIter("n", 1, 9, 1), LoopIter("k", 0, 4, 1), LoopIter("m", 0, 6, 3)>>,
      <<LoopIter("n", 4, 6, 1)>> }

Nests == {LoopNest(is, b) : is \in IterLists, b \in Bodies}

TransformInputs ==
    {Tiling(o, "s", f) : o \in {"n", "m"}, f \in {2, 3}}
    \cup {Tiling("n", "m", 2), Tiling("n", "s", 0), Tiling("M_a", "s", 2), Tiling("s", "n", 2)}
    \cup {Tiling("n", "n", 2), Tiling("m", "m", 2)}
    \cup {Renaming("n", "s"), Renaming("m", "n"), Renaming("M_a", "K_b"), Renaming("s", "m"),
          Renaming("n", "n2")}
    \cup {Reorder("n", "m"), Reorder("m", "n"), Reorder("s", "n"), Reorder("n", "k")}
    \cup {MapSpatial("n"), MapTemporal("m")}

RECURSIVE SeqsUpTo(_, _)
SeqsUpTo(S, n) ==
    IF n = 0 THEN {<<>>}
    ELSE LET shorter == SeqsUpTo(S, n - 1)
         IN  shorter \cup {Append(q, x) : q \in {r \in shorter : Len(r) = n - 1}, x \in S}

Scripts == SeqsUpTo(TransformInputs, MaxScript)

NoNest == [tag |-> "None"]
NoTransform == [tag |-> "None"]

----------------------------------------------------------------------------
(* Transforming::apply_all (transform_pass.rs 9-18), one step per          *)
(* statement of its body, for Self = LoopNest                              *)

\* let mut new_self = self.clone();
ApplyAllClone ==
    /\ t_pc = "call"
    /\ new_self' = t_self
    /\ t_pc' = "loop"
    /\ UNCHANGED <<t_self, t_script, t_k, t_prev, t_last>>

apply_all_next_reversed(script, k) == script[Len(script) - k]

\* the transform the for loop hands to apply next
apply_all_next(script, k) == script[k + 1]

\* one iteration: new_self = new_self.apply(&transform);
ApplyStep(t) ==
    /\ t_pc = "loop"
    /\ t_k < Len(t_script)
    /\ t = apply_all_next(t_script, t_k)
    /\ LET r == LoopNest_apply(new_self, t)
       IN  /\ new_self' = r
           /\ t_pc' = IF IsPanic(r) THEN "panicked" ELSE "loop"
    /\ t_prev' = new_self
    /\ t_last' = t
    /\ t_k' = t_k + 1
    /\ UNCHANGED <<t_self, t_script>>

ApplyTiling == \E t \in TransformInputs : t.tag = "Tiling" /\ ApplyStep(t)
ApplyRenaming == \E t \in TransformInputs : t.tag = "Renaming" /\ ApplyStep(t)
ApplyReorder == \E t \in TransformInputs : t.tag = "Reorder" /\ ApplyStep(t)
ApplyMapping ==
    \E t \in TransformInputs : t.tag \in {"MapSpatial", "MapTemporal"} /\ ApplyStep(t)

\* the loop is over: apply_all returns new_self
ApplyAllReturn ==
    /\ t_pc = "loop"
    /\ t_k = Len(t_script)
    /\ t_pc' = "returned"
    /\ UNCHANGED <<t_self, t_script, t_k, new_self, t_prev, t_last>>

PipelineOff ==
    /\ loop_nest = NoNest /\ arch = "None"
    /\ iter_properties = <<>> /\ inst_properties = <<>>
    /\ loop_properties = <<>> /\ workspace_properties = <<>>
    /\ available_features = <<>>
    /\ passes = <<>> /\ status = "off" /\ idx = 0 /\ err = "None"
    /\ trace = <<>> /\ pre = <<>> /\ snap = <<>> /\ nest0 = NoNest /\ registered = <<>>
    /\ last_add = [op |-> "None", known |-> TRUE, result |-> "None"]

RoundTripOff == r_in = NoNest /\ r_text = <<>> /\ r_out = NoNest /\ r_pc = "off"

TInit ==
    /\ t_self \in Nests
    /\ t_script \in Scripts
    /\ t_pc = "call"
    /\ t_k = 0
    /\ new_self = NoNest
    /\ t_prev = NoNest
    /\ t_last = NoTransform
    /\ PipelineOff
    /\ RoundTripOff

\* TNext and SpecT follow the Serialize / Deserialize steps of the returned
\* nest, at the end of the text section.



----------------------------------------------------------------------------
(* Properties of Tiling and apply_all, checked under SpecT                 *)

\* the latest loop iteration applied a Tiling to a nest
TiledLast == t_last.tag = "Tiling" /\ t_prev.tag = "LoopNest"

\* the rewrite of an address expression that the specification describes:
\* every Var(old) becomes Add(Mul(Const(factor), Var(new)), Var(old))
RECURSIVE RewriteVarOld(_, _)
RewriteVarOld(e, t) ==
    CASE e.tag = "Var" ->
            IF e.name = t.old THEN Add(Mul(CConst(t.factor), Var(t.new)), Var(t.old)) ELSE e
      [] e.tag = "Const" -> e
      [] e.tag = "Add" -> Add(RewriteVarOld(e.lhs, t), RewriteVarOld(e.rhs, t))
      [] e.tag = "Sub" -> Sub(RewriteVarOld(e.lhs, t), RewriteVarOld(e.rhs, t))
      [] e.tag = "Mul" -> Mul(e.coeff, RewriteVarOld(e.expr, t))
      [] e.tag = "Div" -> Div(RewriteVarOld(e.expr, t), e.coeff)
      [] e.tag = "Mod" -> Mod(RewriteVarOld(e.expr, t), e.coeff)

\* C7: a successful Tiling(old, new, factor) rewrites every Var(old) of every
\* address expression of every DataLoad/DataStore, an index that is exactly
\* Var(old) included, to Add(Mul(Const(factor), Var(new)), Var(old)), and
\* leaves the number of address indices of each access unchanged.
C7_TilingRewritesEveryIndex ==
    (TiledLast /\ ~IsPanic(new_self)) =>
        \A i \in 1..Len(t_prev.body) :
            t_prev.body[i].tag \in {"DataLoad", "DataStore"} =>
                /\ Len(new_self.body[i].access.addr) = Len(t_prev.body[i].access.addr)
                /\ new_self.body[i].access.addr =
                       [j \in 1..Len(t_prev.body[i].access.addr) |->
                            RewriteVarOld(t_prev.body[i].access.addr[j], t_last)]

NonDivisible(x, t) ==
    {j \in 1..Len(x.iters) :
        x.iters[j].iter_name = t.old /\ x.iters[j].bounds[2] % t.factor # 0}

\* C9: Tiling(old, new, factor) of a nest whose iterator old has hi % factor # 0
\* fails with NonDivisibleTile naming the iterator, the bound and the factor,
\* and apply_all returns no nest.
C9_NonDivisibleTileFails ==
    (TiledLast /\ t_last.factor > 0 /\ NonDivisible(t_prev, t_last) # {}) =>
        /\ t_pc = "panicked"
        /\ new_self = [tag |-> "Panic", kind |-> "NonDivisibleTile",
                       info |-> <<t_last.old,
                                  t_prev.iters[MinOf(NonDivisible(t_prev, t_last))].bounds[2],
                                  t_last.factor>>]

\* a tiling was refused for a bound the factor does not divide, although the
\* body uses the tiled name
C9_Witness ==
    /\ TiledLast /\ t_pc = "panicked"
    /\ new_self.kind = "NonDivisibleTile"
    /\ new_self.info[2] % new_self.info[3] # 0
    /\ t_k = 2

\* apply(tn)(...apply(t1)(x)...), by recursion on the script from its end
RECURSIVE FoldApply(_, _)
FoldApply(x, script) ==
    IF script = <<>> THEN x
    ELSE LoopNest_apply(FoldApply(x, SubSeq(script, 1, Len(script) - 1)), script[Len(script)])

\* C10: when every step succeeds, apply_all([t1..tn])(x) is
\* apply(tn)(...apply(t1)(x)...) in script order, and apply_all of the empty
\* script returns a nest equal to x.
C10_ApplyAllIsLeftFold ==
    t_pc = "returned" =>
        /\ new_self = FoldApply(t_self, t_script)
        /\ (t_script = <<>> => new_self = t_self)

\* apply_all returned from a script of two transforms whose order matters
C10_Witness ==
    /\ t_pc = "returned"
    /\ Len(t_script) = 2
    /\ ~IsPanic(LoopNest_apply(t_self, t_script[2]))
    /\ ~IsPanic(LoopNest_apply(LoopNest_apply(t_self, t_script[2]), t_script[1]))
    /\ new_self # LoopNest_apply(LoopNest_apply(t_self, t_script[2]), t_script[1])

\* the names of the iterators of a nest
IterNames(x) == {x.iters[j].iter_name : j \in 1..Len(x.iters)}

\* the latest loop iteration applied a transform to a nest
AppliedLast == t_last.tag # "None" /\ t_prev.tag = "LoopNest"

\* C11: in apply_all each Tiling or Reorder is resolved against the iterators
\* of the nest that the preceding transforms of the script produced: one that
\* names an iterator absent from that nest (renamed away, for instance)
\* fails; once a transform has failed no later transform is applied and
\* apply_all returns no nest.
C11_ErrorsShortCircuit ==
    /\ [](AppliedLast =>
            /\ t_prev = FoldApply(t_self, SubSeq(t_script, 1, t_k - 1))
            /\ (t_last.tag = "Tiling" /\ t_last.old \notin IterNames(t_prev))
                   => IsPanic(new_self)
            /\ (t_last.tag = "Reorder"
                   /\ ~({t_last.iter1, t_last.iter2} \subseteq IterNames(t_prev)))
                   => IsPanic(new_self)
            /\ IsPanic(new_self) => t_pc = "panicked")
    /\ [][t_pc = "panicked" =>
            /\ t_pc' = "panicked" /\ new_self' = new_self /\ t_k' = t_k]_vars

\* a Tiling failed on the name that the Renaming before it renamed away
C11_Witness ==
    /\ t_pc = "panicked" /\ t_k = 2
    /\ t_script[1].tag = "Renaming" /\ t_script[2].tag = "Tiling"
    /\ t_script[2].old = t_script[1].old
    /\ t_script[1].old \in IterNames(t_self)
    /\ t_script[1].old \notin IterNames(t_prev)

\* 1-based position of the first iterator of nest x named n
FirstNamed(x, n) == MinOf({j \in 1..Len(x.iters) : x.iters[j].iter_name = n})

\* C12: Reorder(a, b) of a nest holding iterators a and b exchanges the entries
\* at the positions of a and b, keeps every other position, and leaves the
\* body and the properties equal to the original; when a or b is no iterator
\* of the nest it fails with IterNotFound naming the missing one.
C12_ReorderSwapsIterators ==
    (AppliedLast /\ t_last.tag = "Reorder") =>
        IF {t_last.iter1, t_last.iter2} \subseteq IterNames(t_prev)
        THEN LET pa == FirstNamed(t_prev, t_last.iter1)
                 pb == FirstNamed(t_prev, t_last.iter2)
             IN  /\ ~IsPanic(new_self)
                 /\ Len(new_self.iters) = Len(t_prev.iters)
                 /\ \A j \in 1..Len(t_prev.iters) :
                        new_self.iters[j] =
                            IF j = pa THEN t_prev.iters[pb]
                            ELSE IF j = pb THEN t_prev.iters[pa]
                            ELSE t_prev.iters[j]
                 /\ new_self.body = t_prev.body
                 /\ new_self.properties = t_prev.properties
        ELSE /\ IsPanic(new_self)
             /\ new_self.kind = "IterNotFound"
             /\ new_self.info[2] \in {t_last.iter1, t_last.iter2} \ IterNames(t_prev)
             /\ t_pc = "panicked"

\* a Reorder exchanged two of three iterators
C12_Witness ==
    /\ AppliedLast /\ t_last.tag = "Reorder" /\ ~IsPanic(new_self)
    /\ Len(t_prev.iters) = 3
    /\ new_self.iters # t_prev.iters
    /\ new_self.iters[FirstNamed(t_prev, t_last.iter1)].iter_name = t_last.iter2

\* the names used as ConstVar in a coefficient
RECURSIVE CoeffConstVars(_)
CoeffConstVars(c) ==
    CASE c.tag = "Const" -> {}
      [] c.tag = "ConstVar" -> {c.name}
      [] c.tag = "Mul" -> CoeffConstVars(c.lhs) \cup CoeffConstVars(c.rhs)

\* the names used as ConstVar in an address expression
RECURSIVE ExprConstVars(_)
ExprConstVars(e) ==
    CASE e.tag \in {"Var", "Const"} -> {}
      [] e.tag \in {"Add", "Sub"} -> ExprConstVars(e.lhs) \cup ExprConstVars(e.rhs)
      [] e.tag \in {"Mul", "Div", "Mod"} -> CoeffConstVars(e.coeff) \cup ExprConstVars(e.expr)

\* the names used as Var in an address expression
RECURSIVE ExprVars(_)
ExprVars(e) ==
    CASE e.tag = "Var" -> {e.name}
      [] e.tag = "Const" -> {}
      [] e.tag \in {"Add", "Sub"} -> ExprVars(e.lhs) \cup ExprVars(e.rhs)
      [] e.tag \in {"Mul", "Div", "Mod"} -> ExprVars(e.expr)

\* the address expressions of a body, over all its DataLoad/DataStore
BodyAddrExprs(body) ==
    UNION {{body[i].access.addr[j] : j \in 1..Len(body[i].access.addr)} :
              i \in {k \in 1..Len(body) : body[k].tag \in {"DataLoad", "DataStore"}}}

BodyVars(body) == UNION {ExprVars(e) : e \in BodyAddrExprs(body)}
BodyConstVars(body) == UNION {ExprConstVars(e) : e \in BodyAddrExprs(body)}

\* a coefficient with the name old replaced by new, position by position
RECURSIVE SubstCoeff(_, _, _)
SubstCoeff(c, old, new) ==
    CASE c.tag = "Const" -> c
      [] c.tag = "ConstVar" -> IF c.name = old THEN [c EXCEPT !.name = new] ELSE c
      [] c.tag = "Mul" ->
            [c EXCEPT !.lhs = SubstCoeff(c.lhs, old, new), !.rhs = SubstCoeff(c.rhs, old, new)]

\* an address expression with the name old replaced by new, position by position
RECURSIVE SubstExpr(_, _, _)
SubstExpr(e, old, new) ==
    CASE e.tag = "Var" -> IF e.name = old THEN [e EXCEPT !.name = new] ELSE e
      [] e.tag = "Const" -> e
      [] e.tag \in {"Add", "Sub"} ->
            [e EXCEPT !.lhs = SubstExpr(e.lhs, old, new), !.rhs = SubstExpr(e.rhs, old, new)]
      [] e.tag \in {"Mul", "Div", "Mod"} ->
            [e EXCEPT !.coeff = SubstCoeff(e.coeff, old, new), !.expr = SubstExpr(e.expr, old, new)]

C14_MappingTransformUpdatesMapping ==
    (AppliedLast /\ t_last.tag \in {"MapSpatial", "MapTemporal"}) =>
        /\ ~IsPanic(new_self)
        /\ new_self.iters = t_prev.iters
        /\ new_self.body = t_prev.body
        /\ new_self.properties # "None"
        /\ LET m == new_self.properties.mapping
           IN  /\ t_last.iter \in DOMAIN m
               /\ m[t_last.iter] = IF t_last.tag = "MapSpatial"
                                   THEN <<"Spatial", t_last.iter>> ELSE <<"Temporal">>
               /\ \A n \in DOMAIN m \ {t_last.iter} :
                      /\ t_prev.properties # "None"
                      /\ n \in DOMAIN t_prev.properties.mapping
                      /\ m[n] = t_prev.properties.mapping[n]

\* C15: Renaming(old, new) of a nest that has no iterator named old fails with
\* IterNotFound(old) and produces no transformed nest.
C15_RenamingOfMissingIterFails ==
    (AppliedLast /\ t_last.tag = "Renaming" /\ t_last.old \notin IterNames(t_prev)) =>
        /\ IsPanic(new_self)
        /\ new_self.kind = "IterNotFound"
        /\ t_pc = "panicked"

\* the tiled name is used as a ConstVar in an address expression of the body
TilesCoeffVar == t_last.old \in BodyConstVars(t_prev.body)

\* an iterator named old refuses the factor (its remainder test fails)
TileRefusedByIter ==
    \E j \in 1..Len(t_prev.iters) :
        /\ t_prev.iters[j].iter_name = t_last.old
        /\ (t_last.factor = 0 \/ t_prev.iters[j].bounds[2] % t_last.factor # 0)

\* C16 as stated: Tiling(old, new, factor) of a nest that uses old as a ConstVar
\* anywhere in an address expression fails with TileOverCoeffVar(old) and
\* produces no nest; without such a use it never fails for this reason.
C16_TileOverCoeffVarAlways ==
    TiledLast =>
        IF TilesCoeffVar
        THEN t_pc = "panicked" /\ new_self = Panic("TileOverCoeffVar", <<t_last.old>>)
        ELSE ~(IsPanic(new_self) /\ new_self.kind = "TileOverCoeffVar")

\* C16, amended: Tiling(old, new, factor) of a nest that uses old as a ConstVar
\* anywhere in an address expression fails and produces no nest; the failure
\* is TileOverCoeffVar(old) unless an iterator named old refuses the factor,
\* which is reported first; without such a use tiling never fails with
\* TileOverCoeffVar.
C16_TileOverCoeffVar ==
    TiledLast =>
        IF TilesCoeffVar
        THEN /\ t_pc = "panicked" /\ IsPanic(new_self)
             /\ IF TileRefusedByIter
                THEN new_self.kind \in {"NonDivisibleTile", "RemainderByZero"}
                ELSE new_self = Panic("TileOverCoeffVar", <<t_last.old>>)
        ELSE ~(IsPanic(new_self) /\ new_self.kind = "TileOverCoeffVar")

\* a Tiling of an iterator whose bound the factor divides failed because the
\* name is a ConstVar of the body
C16_Witness ==
    /\ TiledLast /\ t_pc = "panicked"
    /\ new_self.kind = "TileOverCoeffVar"
    /\ t_last.old \in IterNames(t_prev)
    /\ TilesCoeffVar /\ ~TileRefusedByIter

\* the iterator names a transform targets
Targets(t) ==
    CASE t.tag \in {"Tiling", "Renaming"} -> {t.old}
      [] t.tag = "Reorder" -> {t.iter1, t.iter2}
      [] OTHER -> {t.iter}

\* a coefficient and the coefficients inside it
RECURSIVE SubCoeffs(_)
SubCoeffs(c) ==
    IF c.tag = "Mul" THEN {c} \cup SubCoeffs(c.lhs) \cup SubCoeffs(c.rhs) ELSE {c}

\* an address expression and the expressions inside it
RECURSIVE SubExprs(_)
SubExprs(e) ==
    CASE e.tag \in {"Var", "Const"} -> {e}
      [] e.tag \in {"Add", "Sub"} -> {e} \cup SubExprs(e.lhs) \cup SubExprs(e.rhs)
      [] e.tag \in {"Mul", "Div", "Mod"} -> {e} \cup SubExprs(e.expr)

\* the coefficients of an address expression
ExprCoeffs(e) ==
    UNION {SubCoeffs(f.coeff) : f \in {g \in SubExprs(e) : g.tag \in {"Mul", "Div", "Mod"}}}

\* the names an address expression uses, as Var or as ConstVar
ExprNames(e) == ExprVars(e) \cup ExprConstVars(e)

\* the names the address of an access uses
AccessNames(da) == UNION {ExprNames(da.addr[j]) : j \in 1..Len(da.addr)}

\* C17: for a Tiling, Renaming or Reorder t, every Coeff, AffineExpr,
\* DataAccess, Instruction and LoopIter of the nest in which no target name of
\* t occurs is left equal to itself by apply(t), and a Compute is left equal
\* by every transform; the transformed nest holds such a node unchanged.
C17_IdentityOnUnaffectedNodes ==
    (AppliedLast /\ t_last.tag \in {"Tiling", "Renaming", "Reorder"}) =>
        LET t == t_last
            x == t_prev
            exprs == UNION {SubExprs(e) : e \in BodyAddrExprs(x.body)}
            coeffs == UNION {ExprCoeffs(e) : e \in BodyAddrExprs(x.body)}
        IN  /\ \A c \in coeffs :
                   CoeffConstVars(c) \cap Targets(t) = {} =>
                       ~Coeff_panics(c, t) /\ Coeff_apply(c, t) = c
            /\ \A e \in exprs :
                   ExprNames(e) \cap Targets(t) = {} =>
                       ~AffineExpr_panics(e, t) /\ AffineExpr_apply(e, t) = e
            /\ \A j \in 1..Len(x.iters) :
                   x.iters[j].iter_name \notin Targets(t) =>
                       ~LoopIter_panics(x.iters[j], t) /\ LoopIter_apply(x.iters[j], t) = x.iters[j]
            /\ \A i \in 1..Len(x.body) :
                   IF x.body[i].tag = "Compute"
                   THEN /\ Compute_apply(x.body[i], t) = x.body[i]
                        /\ Instruction_apply(x.body[i], t) = x.body[i]
                        /\ ~IsPanic(new_self) => new_self.body[i] = x.body[i]
                   ELSE AccessNames(x.body[i].access) \cap Targets(t) = {} =>
                        /\ ~Instruction_panics(x.body[i], t)
                        /\ DataAccess_apply(x.body[i].access, t) = x.body[i].access
                        /\ Instruction_apply(x.body[i], t) = x.body[i]
                        /\ ~IsPanic(new_self) => new_self.body[i] = x.body[i]

\* a Tiling changed one access of a body and left a Compute and an access
\* that does not use the tiled name as they were
C17_Witness ==
    /\ TiledLast /\ ~IsPanic(new_self)
    /\ \E i \in 1..Len(t_prev.body) : t_prev.body[i].tag = "Compute"
    /\ \E i \in 1..Len(t_prev.body) :
           /\ t_prev.body[i].tag = "DataStore"
           /\ AccessNames(t_prev.body[i].access) # {}
           /\ AccessNames(t_prev.body[i].access) \cap Targets(t_last) = {}
           /\ new_self.body[i] = t_prev.body[i]
    /\ \E i \in 1..Len(t_prev.body) :
           t_prev.body[i].tag = "DataLoad" /\ new_self.body[i] # t_prev.body[i]


----------------------------------------------------------------------------
(* Workspace (workspace.rs)                                                *)

\* Workspace::new: one empty property vector per iterator and per instruction
Workspace_new_properties(n) == [i \in 1..n |-> <<>>]

\* Workspace::add_iter_property(index, property), index 0-based
add_iter_property(ip, index, property) ==
    IF index < Len(ip) THEN [ip EXCEPT ![index + 1] = Append(@, property)] ELSE ip

\* a faulty add_inst_property: an index past the end gets a sequence of its own
add_inst_property_grow(ip, index, property) ==
    IF index < Len(ip) THEN [ip EXCEPT ![index + 1] = Append(@, property)]
    ELSE Append(ip, <<property>>)

\* Workspace::add_inst_property(index, property), index 0-based
add_inst_property(ip, index, property) ==
    IF index < Len(ip) THEN [ip EXCEPT ![index + 1] = Append(@, property)] ELSE ip

\* a faulty add_loop_property: assignment in place of push
add_loop_property_replace(lp, property) == <<property>>

\* Workspace::add_loop_property
add_loop_property(lp, property) == Append(lp, property)

\* Workspace::add_workspace_property
add_workspace_property(wp, property) == Append(wp, property)

\* a faulty find_instruction_index: position(|x| x == instruction)
find_instruction_index_eq(nest, ref) ==
    IF ref \in 0..(Len(nest.body) - 1)
    THEN MinOf({j \in 1..Len(nest.body) : nest.body[j] = nest.body[ref + 1]}) - 1
    ELSE -1

\* Workspace::find_instruction_index: position(|x| ptr::eq(x, instruction)).
\* A reference into loop_nest.body is its 0-based position; any other
\* reference is found nowhere: None, written -1.
find_instruction_index(nest, ref) ==
    IF ref \in 0..(Len(nest.body) - 1) THEN ref ELSE -1

\* Workspace::find_iter_index: position(|x| ptr::eq(x, iter)), as above
find_iter_index(nest, ref) ==
    IF ref \in 0..(Len(nest.iters) - 1) THEN ref ELSE -1

\* Workspace::add_iter_property_for: [ok, iter_properties]
add_iter_property_for(ip, nest, ref, property) ==
    LET index == find_iter_index(nest, ref)
    IN  IF index # -1
        THEN [ok |-> TRUE, ip |-> add_iter_property(ip, index, property)]
        ELSE [ok |-> FALSE, ip |-> ip]

\* Workspace::add_inst_property_for: [ok, inst_properties]
add_inst_property_for(ip, nest, ref, property) ==
    LET index == find_instruction_index(nest, ref)
    IN  IF index # -1
        THEN [ok |-> TRUE, ip |-> add_inst_property(ip, index, property)]
        ELSE [ok |-> FALSE, ip |-> ip]

\* Workspace::feature_available_str
feature_available_str(af, feature_str) == \E i \in 1..Len(af) : af[i] = feature_str

\* the id a derived PropertyHook gives an entity: its type name and its text
property_hook_id(type, entity) == <<type, entity>>

\* Workspace::add_property(inst, property), called by FreeDimAnalysis: the
\* property is appended to the sequence filed under the instruction's hook id;
\* the hooks are those of the instructions of the body
Workspace_add_property(ip, nest, inst, property) ==
    LET hooks == {j \in 1..Len(nest.body) :
                     property_hook_id("Instruction", nest.body[j]) =
                     property_hook_id("Instruction", inst)}
    IN  IF hooks = {} THEN ip
        ELSE [ip EXCEPT ![MinOf(hooks)] = Append(@, property)]

----------------------------------------------------------------------------
(* The passes                                                              *)

\* a faulty walk: a name met twice is kept once (the dedup the code has
\* commented out)
RECURSIVE MemAccessAnalysis_get_accesses_dedup(_)
MemAccessAnalysis_get_accesses_dedup(e) ==
    CASE e.tag = "Var" -> <<e.name>>
      [] e.tag = "Const" -> <<>>
      [] e.tag \in {"Add", "Sub"} ->
            LET l == MemAccessAnalysis_get_accesses_dedup(e.lhs)
                r == MemAccessAnalysis_get_accesses_dedup(e.rhs)
            IN  l \o SelectSeq(r, LAMBDA n : \A j \in 1..Len(l) : l[j] # n)
      [] e.tag \in {"Mul", "Div", "Mod"} -> MemAccessAnalysis_get_accesses_dedup(e.expr)

\* MemAccessAnalysis::get_accesses_from_affine_expr (mem_access_analysis.rs 41-63)
RECURSIVE MemAccessAnalysis_get_accesses(_)
MemAccessAnalysis_get_accesses(e) ==
    CASE e.tag = "Var" -> <<e.name>>
      [] e.tag = "Const" -> <<>>
      [] e.tag \in {"Add", "Sub"} ->
            MemAccessAnalysis_get_accesses(e.lhs) \o MemAccessAnalysis_get_accesses(e.rhs)
      [] e.tag \in {"Mul", "Div", "Mod"} -> MemAccessAnalysis_get_accesses(e.expr)

MemAccessProp(dims) == [name |-> "MemAccess", accessed_dims |-> dims]

\* impl InstAnalysis for MemAccessAnalysis: analyze_inst
MemAccessAnalysis_analyze_inst(inst) ==
    IF inst.tag \in {"DataLoad", "DataStore"}
    THEN <<MemAccessProp(Flatten(SeqMap(MemAccessAnalysis_get_accesses, inst.access.addr)))>>
    ELSE <<>>

\* the inner loop `for property in properties { add_inst_property_for(inst, property)? }`
RECURSIVE add_all_inst_properties(_, _, _, _)
add_all_inst_properties(ip, nest, ref, properties) ==
    IF properties = <<>> THEN [ok |-> TRUE, ip |-> ip]
    ELSE LET r == add_inst_property_for(ip, nest, ref, Head(properties))
         IN  IF r.ok THEN add_all_inst_properties(r.ip, nest, ref, Tail(properties)) ELSE r

\* run derived by #[derive(InstPass)] (pass_derive/src/lib.rs 15-23), from
\* body position i (0-based) on
RECURSIVE MemAccessAnalysis_run(_, _, _)
MemAccessAnalysis_run(ip, nest, i) ==
    IF i >= Len(nest.body) THEN [ok |-> TRUE, ip |-> ip]
    ELSE LET r == add_all_inst_properties(ip, nest, i,
                      MemAccessAnalysis_analyze_inst(nest.body[i + 1]))
         IN  IF r.ok THEN MemAccessAnalysis_run(r.ip, nest, i + 1) ELSE r

\* FreeDimAnalysis::get_accesses_from_affine_expr (free_dim_analysis.rs 27-49)
RECURSIVE FreeDimAnalysis_get_accesses(_)
FreeDimAnalysis_get_accesses(e) ==
    CASE e.tag = "Var" -> <<e.name>>
      [] e.tag = "Const" -> <<>>
      [] e.tag \in {"Add", "Sub"} ->
            FreeDimAnalysis_get_accesses(e.lhs) \o FreeDimAnalysis_get_accesses(e.rhs)
      [] e.tag \in {"Mul", "Div", "Mod"} -> FreeDimAnalysis_get_accesses(e.expr)

FreeDimProp(dims) == [name |-> "FreeDimProp", free_dims |-> dims]

\* iter_names.into_iter().filter(|dim| !accessed_dims.contains(dim)).collect()
RECURSIVE filter_not_accessed(_, _)
filter_not_accessed(iter_names, accessed_dims) ==
    IF iter_names = <<>> THEN <<>>
    ELSE (IF \E j \in 1..Len(accessed_dims) : accessed_dims[j] = Head(iter_names)
          THEN <<>> ELSE <<Head(iter_names)>>)
         \o filter_not_accessed(Tail(iter_names), accessed_dims)

\* the free dims FreeDimAnalysis::run computes for one instruction
FreeDimAnalysis_free_dims(nest, inst) ==
    LET iter_names == SeqMap(LAMBDA it : it.iter_name, nest.iters)
        accessed_dims ==
            IF inst.tag \in {"DataLoad", "DataStore"}
            THEN Flatten(SeqMap(FreeDimAnalysis_get_accesses, inst.access.addr))
            ELSE <<>>
    IN  filter_not_accessed(iter_names, accessed_dims)

\* impl PassRun for FreeDimAnalysis: run, over body.clone(), from position i (1-based)
RECURSIVE FreeDimAnalysis_run(_, _, _)
FreeDimAnalysis_run(ip, nest, i) ==
    IF i > Len(nest.body) THEN ip
    ELSE FreeDimAnalysis_run(
             Workspace_add_property(ip, nest, nest.body[i],
                                    FreeDimProp(FreeDimAnalysis_free_dims(nest, nest.body[i]))),
             nest, i + 1)

ArchInfo(a) == [name |-> "ArchInfo", arch |-> a]

\* PassInfo of the passes: name, required_features, produced_features
MemAccessAnalysis ==
    [kind |-> "MemAccessAnalysis", name |-> "Memory Access Analysis",
     required_features |-> <<"Architecture">>, produced_features |-> <<"MemAccess">>,
     result |-> "Ok"]
FreeDimAnalysis ==
    [kind |-> "FreeDimAnalysis", name |-> "Free Dimension Analysis",
     required_features |-> <<>>, produced_features |-> <<"FreeDims">>,
     result |-> "Ok"]
ArchInfoBuilder ==
    [kind |-> "ArchInfoBuilder", name |-> "ArchInfoBuilder",
     required_features |-> <<>>, produced_features |-> <<"ArchInfo">>,
     result |-> "Ok"]
\* any other implementation of Pass: it files one workspace property and
\* returns `result`
AnyPass(required, result) ==
    [kind |-> "AnyPass", name |-> "AnyPass",
     required_features |-> required, produced_features |-> <<"Any">>,
     result |-> result]


----------------------------------------------------------------------------
(* Inputs of the pipeline specification                                    *)

MaxPasses == 3
MaxPre == 1

PipelineNests ==
    { LoopNest(<<LoopIter("m", 0, 4, 1), LoopIter("k", 0, 6, 1), LoopIter("n", 0, 8, 1)>>,
               <<DataLoad(DataAccess("A", <<Var("m"), Var("k")>>, "Ra")),
                 Compute("cmp", <<Reg("Ra"), Imm(0)>>, "Rcmp")>>),
      LoopNest(<<LoopIter("n", 0, 8, 1), LoopIter("s", 0, 2, 1)>>,
               <<DataLoad(DataAccess("B", <<Add(Mul(CConst(2), Var("s")), Var("n"))>>, "Rb")),
                 DataLoad(DataAccess("B", <<Add(Mul(CConst(2), Var("s")), Var("n"))>>, "Rb"))>>),
      LoopNest(<<LoopIter("m", 0, 4, 1), LoopIter("k", 0, 6, 1), LoopIter("n", 0, 8, 1)>>,
               <<DataStore(DataAccess("C", <<Add(Var("m"), Var("m")),
                                             Mod(Sub(Var("n"), Const(3)), CConstVar("k"))>>, "Rc")),
                 Compute("cmp", <<Reg("Ra"), Imm(0)>>, "Rcmp"),
                 DataLoad(DataAccess("A", <<Mul(CConst(2), Var("k"))>>, "Ra"))>>) }

PassInputs ==
    { MemAccessAnalysis, FreeDimAnalysis, ArchInfoBuilder,
      AnyPass(<<>>, "Err"), AnyPass(<<"ArchInfo">>, "Ok") }

\* features a caller may push onto the public available_features vector
PushedFeatures == {"Architecture"}

\* a property filed by the caller before the pipeline runs
Note == [name |-> "Note"]

NoErr == [kind |-> "None"]

\* no add_*_property call was made yet
NoAdd == [op |-> "None", known |-> TRUE, result |-> "None"]

\* a reference to a LoopIter or an Instruction that is no element of the
\* workspace's nest (a clone, for instance): no position of the nest
Foreign == -2

PropsRec(ip, np, lp, wp) == [iter |-> ip, inst |-> np, loop |-> lp, ws |-> wp]
Props == PropsRec(iter_properties, inst_properties, loop_properties, workspace_properties)

\* number of properties held by the workspace
RECURSIVE SumLen(_)
SumLen(ss) == IF ss = <<>> THEN 0 ELSE Len(Head(ss)) + SumLen(Tail(ss))
PropCount ==
    SumLen(iter_properties) + SumLen(inst_properties)
    + Len(loop_properties) + Len(workspace_properties)

TransformsOff ==
    /\ t_self = NoNest /\ t_script = <<>> /\ t_pc = "off" /\ t_k = 0
    /\ new_self = NoNest /\ t_prev = NoNest /\ t_last = NoTransform

----------------------------------------------------------------------------
(* Workspace::new, the caller's additions, PassPipeline                    *)

\* Workspace::new(loop_nest, arch) and PassPipeline::new()
Init ==
    /\ loop_nest \in PipelineNests
    /\ arch \in {"None", "ArchA"}
    /\ iter_properties = Workspace_new_properties(Len(loop_nest.iters))
    /\ inst_properties = Workspace_new_properties(Len(loop_nest.body))
    /\ loop_properties = <<>>
    /\ workspace_properties = <<>>
    /\ available_features = <<>>
    /\ passes = <<>>
    /\ status = "idle"
    /\ idx = 0
    /\ err = NoErr
    /\ trace = <<>>
    /\ pre = Props
    /\ snap = Props
    /\ nest0 = loop_nest
    /\ registered = <<>>
    /\ last_add = NoAdd
    /\ TransformsOff
    /\ RoundTripOff

register_pass_front(ps, pass) == <<pass>> \o ps

\* PassPipeline::register_pass: self.passes.push(pass)
register_pass(ps, pass) == Append(ps, pass)

RegisterPass ==
    /\ status = "idle"
    /\ Len(passes) < MaxPasses
    /\ \E pass \in PassInputs :
          /\ passes' = register_pass(passes, pass)
          /\ registered' = Append(registered, pass)
    /\ UNCHANGED <<status, idx, err, trace, pre, snap, nest0, wvars>>

\* the caller pushes a feature onto workspace.available_features
PushFeature ==
    /\ status = "idle"
    /\ \E f \in PushedFeatures :
          /\ ~feature_available_str(available_features, f)
          /\ available_features' = Append(available_features, f)
    /\ UNCHANGED <<loop_nest, arch, iter_properties, inst_properties, loop_properties,
                   workspace_properties, pvars>>

\* what a call of the caller returned: `known` tells whether the entity it
\* named is registered in the workspace
Added(op, known, result) == [op |-> op, known |-> known, result |-> result]

\* the caller files a property before the run; the function returns () for
\* every index, one past the end included
AddIterProperty ==
    /\ status = "idle" /\ PropCount < MaxPre
    /\ \E index \in 0..Len(iter_properties) :
          /\ iter_properties' = add_iter_property(iter_properties, index, Note)
          /\ last_add' = Added("add_iter_property", index < Len(iter_properties), "Ok")
    /\ UNCHANGED <<loop_nest, arch, inst_properties, loop_properties,
                   workspace_properties, available_features, pvars>>

AddInstProperty ==
    /\ status = "idle" /\ PropCount < MaxPre
    /\ \E index \in 0..Len(inst_properties) :
          /\ inst_properties' = add_inst_property(inst_properties, index, Note)
          /\ last_add' = Added("add_inst_property", index < Len(inst_properties), "Ok")
    /\ UNCHANGED <<loop_nest, arch, iter_properties, loop_properties,
                   workspace_properties, available_features, pvars>>

\* the caller names the iterator by reference: an element of the nest or not
AddIterPropertyFor ==
    /\ status = "idle" /\ PropCount < MaxPre
    /\ \E ref \in (0..(Len(loop_nest.iters) - 1)) \cup {Foreign} :
          LET r == add_iter_property_for(iter_properties, loop_nest, ref, Note)
          IN  /\ iter_properties' = r.ip
              /\ last_add' = Added("add_iter_property_for", ref # Foreign,
                                   IF r.ok THEN "Ok" ELSE "LoopIter not found in LoopNest")
    /\ UNCHANGED <<loop_nest, arch, inst_properties, loop_properties,
                   workspace_properties, available_features, pvars>>

\* the caller names the instruction by reference: an element of the nest or not
AddInstPropertyFor ==
    /\ status = "idle" /\ PropCount < MaxPre
    /\ \E ref \in (0..(Len(loop_nest.body) - 1)) \cup {Foreign} :
          LET r == add_inst_property_for(inst_properties, loop_nest, ref, Note)
          IN  /\ inst_properties' = r.ip
              /\ last_add' = Added("add_inst_property_for", ref # Foreign,
                                   IF r.ok THEN "Ok" ELSE "Instruction not found in LoopNest")
    /\ UNCHANGED <<loop_nest, arch, iter_properties, loop_properties,
                   workspace_properties, available_features, pvars>>

AddLoopProperty ==
    /\ status = "idle" /\ PropCount < MaxPre
    /\ loop_properties' = add_loop_property(loop_properties, Note)
    /\ last_add' = Added("add_loop_property", TRUE, "Ok")
    /\ UNCHANGED <<loop_nest, arch, iter_properties, inst_properties,
                   workspace_properties, available_features, pvars>>

AddWorkspaceProperty ==
    /\ status = "idle" /\ PropCount < MaxPre
    /\ workspace_properties' = add_workspace_property(workspace_properties, Note)
    /\ last_add' = Added("add_workspace_property", TRUE, "Ok")
    /\ UNCHANGED <<loop_nest, arch, iter_properties, inst_properties,
                   loop_properties, available_features, pvars>>

\* PassPipeline::run is called: the for loop starts at the first pass
RunBegin ==
    /\ status = "idle"
    /\ status' = IF passes = <<>> THEN "done" ELSE "checking"
    /\ idx' = IF passes = <<>> THEN 0 ELSE 1
    /\ pre' = Props
    /\ snap' = Props
    /\ UNCHANGED <<passes, err, trace, nest0, registered, wvars>>

\* the features of the pass that the workspace lacks
Missing(pass, af) ==
    {pass.required_features[j] : j \in
        {j \in 1..Len(pass.required_features) : ~feature_available_str(af, pass.required_features[j])}}

check_required_skipped(pass, af) == "None"

\* the loop over pass.required_features(): the first one that is not
\* available, "None" when every one is
check_required(pass, af) ==
    LET miss == {j \in 1..Len(pass.required_features) :
                    ~feature_available_str(af, pass.required_features[j])}
    IN  IF miss = {} THEN "None" ELSE pass.required_features[MinOf(miss)]

Event(ev, ok) ==
    [ev |-> ev, i |-> idx, pass |-> passes[idx], ok |-> ok,
     missing |-> Missing(passes[idx], available_features)]

CheckFeatures_rollback ==
    /\ status = "checking"
    /\ LET m == check_required(passes[idx], available_features)
       IN  /\ status' = IF m = "None" THEN "running" ELSE "failed"
           /\ err' = IF m = "None" THEN NoErr
                     ELSE [kind |-> "MissingFeature", feature |-> m, pass |-> passes[idx].name]
           /\ trace' = Append(trace, Event("check", m = "None"))
           /\ iter_properties' = IF m = "None" THEN iter_properties ELSE pre.iter
           /\ inst_properties' = IF m = "None" THEN inst_properties ELSE pre.inst
           /\ loop_properties' = IF m = "None" THEN loop_properties ELSE pre.loop
           /\ workspace_properties' = IF m = "None" THEN workspace_properties ELSE pre.ws
    /\ UNCHANGED <<passes, idx, pre, snap, nest0, registered, loop_nest, arch, available_features>>

\* run, lines 21-29: the required features of the pass at idx are checked
CheckFeatures ==
    /\ status = "checking"
    /\ LET m == check_required(passes[idx], available_features)
       IN  /\ status' = IF m = "None" THEN "running" ELSE "failed"
           /\ err' = IF m = "None" THEN NoErr
                     ELSE [kind |-> "MissingFeature", feature |-> m, pass |-> passes[idx].name]
           /\ trace' = Append(trace, Event("check", m = "None"))
    /\ UNCHANGED <<passes, idx, pre, snap, nest0, registered, wvars>>

\* run, line 33: `pass.run(workspace).map_err(|e| e.to_string())?;` has
\* returned; the loop goes on to the next pass, returns Ok(()) after the last
\* one, or returns the error
PassReturns(ok) ==
    /\ trace' = Append(trace, Event("run", ok))
    /\ status' = IF ~ok THEN "failed" ELSE IF idx = Len(passes) THEN "done" ELSE "checking"
    /\ idx' = IF ok /\ idx < Len(passes) THEN idx + 1 ELSE idx
    /\ err' = IF ok THEN NoErr ELSE [kind |-> "PassError", feature |-> "None", pass |-> passes[idx].name]
    /\ snap' = IF ok THEN Props' ELSE snap
    /\ UNCHANGED <<passes, pre, nest0, registered, loop_nest, arch, available_features>>

RunMemAccessAnalysis ==
    /\ status = "running"
    /\ passes[idx].kind = "MemAccessAnalysis"
    /\ LET r == MemAccessAnalysis_run(inst_properties, loop_nest, 0)
       IN  /\ inst_properties' = r.ip
           /\ UNCHANGED <<iter_properties, loop_properties, workspace_properties>>
           /\ PassReturns(r.ok)
    /\ UNCHANGED <<tvars, last_add, rvars>>

RunFreeDimAnalysis ==
    /\ status = "running"
    /\ passes[idx].kind = "FreeDimAnalysis"
    /\ inst_properties' = FreeDimAnalysis_run(inst_properties, loop_nest, 1)
    /\ UNCHANGED <<iter_properties, loop_properties, workspace_properties>>
    /\ PassReturns(TRUE)
    /\ UNCHANGED <<tvars, last_add, rvars>>

\* impl PassRun for ArchInfoBuilder (arch_info.rs 67-72)
RunArchInfoBuilder ==
    /\ status = "running"
    /\ passes[idx].kind = "ArchInfoBuilder"
    /\ loop_properties' = add_loop_property(loop_properties, ArchInfo("ArchB"))
    /\ UNCHANGED <<iter_properties, inst_properties, workspace_properties>>
    /\ PassReturns(TRUE)
    /\ UNCHANGED <<tvars, last_add, rvars>>

RunAnyPass ==
    /\ status = "running"
    /\ passes[idx].kind = "AnyPass"
    /\ workspace_properties' = add_workspace_property(workspace_properties, [name |-> "Any"])
    /\ UNCHANGED <<iter_properties, inst_properties, loop_properties>>
    /\ PassReturns(passes[idx].result = "Ok")
    /\ UNCHANGED <<tvars, last_add, rvars>>

Next ==
    \/ (RegisterPass /\ UNCHANGED <<tvars, last_add, rvars>>)
    \/ (PushFeature /\ UNCHANGED <<tvars, last_add, rvars>>)
    \/ (AddIterProperty /\ UNCHANGED <<tvars, rvars>>)
    \/ (AddInstProperty /\ UNCHANGED <<tvars, rvars>>)
    \/ (AddIterPropertyFor /\ UNCHANGED <<tvars, rvars>>)
    \/ (AddInstPropertyFor /\ UNCHANGED <<tvars, rvars>>)
    \/ (AddLoopProperty /\ UNCHANGED <<tvars, rvars>>)
    \/ (AddWorkspaceProperty /\ UNCHANGED <<tvars, rvars>>)
    \/ (RunBegin /\ UNCHANGED <<tvars, last_add, rvars>>)
    \/ (CheckFeatures /\ UNCHANGED <<tvars, last_add, rvars>>)
    \/ RunMemAccessAnalysis
    \/ RunFreeDimAnalysis
    \/ RunArchInfoBuilder
    \/ RunAnyPass

Spec == Init /\ [][Next]_vars


----------------------------------------------------------------------------
(* Properties of PassPipeline::run, checked under Spec                     *)

PrefixAll(a, b) ==
    /\ Len(a.iter) = Len(b.iter)
    /\ Len(a.inst) = Len(b.inst)
    /\ \A i \in 1..Len(a.iter) : IsPrefix(a.iter[i], b.iter[i])
    /\ \A i \in 1..Len(a.inst) : IsPrefix(a.inst[i], b.inst[i])
    /\ IsPrefix(a.loop, b.loop)
    /\ IsPrefix(a.ws, b.ws)

\* C1: when a pass is reached while one of its required features is not
\* available, run returns an error naming the pass and a missing feature, the
\* pass is never run, and no property is added on its behalf.
C1_MissingFeatureStopsPass ==
    \A j \in 1..Len(trace) :
        trace[j].missing # {} =>
            /\ trace[j].ev = "check"
            /\ ~trace[j].ok
            /\ j = Len(trace)
            /\ status = "failed"
            /\ err.kind = "MissingFeature"
            /\ err.pass = trace[j].pass.name
            /\ err.feature \in trace[j].missing
            /\ Props = snap

\* the pipeline failed the feature check of a pass that is not the first one
C1_Witness ==
    /\ status = "failed"
    /\ err.kind = "MissingFeature"
    /\ idx >= 2
    /\ trace[Len(trace)].ev = "check"
    /\ snap # pre

\* the features produced by the passes before position i that returned success
ProducedBefore(i) ==
    UNION { {trace[j].pass.produced_features[k] : k \in 1..Len(trace[j].pass.produced_features)} :
            j \in {j \in 1..Len(trace) : trace[j].ev = "run" /\ trace[j].ok /\ trace[j].i < i} }

\* C2: after a pass returned success each of its produced features is
\* available, so a pass that requires only features produced by the passes
\* before it passes its check.
C2_ProducedFeaturesAvailable ==
    /\ \A j \in 1..Len(trace) :
          (trace[j].ev = "run" /\ trace[j].ok) =>
              \A k \in 1..Len(trace[j].pass.produced_features) :
                  feature_available_str(available_features, trace[j].pass.produced_features[k])
    /\ \A j \in 1..Len(trace) :
          (trace[j].ev = "check"
           /\ \A k \in 1..Len(trace[j].pass.required_features) :
                  trace[j].pass.required_features[k] \in ProducedBefore(trace[j].i))
          => trace[j].ok

\* C3: the passes are checked and run in the order of the register_pass calls,
\* pass i only after passes 1..i-1 were checked and returned success, none
\* twice; a failed check or run is the last thing run does and it ends failed,
\* otherwise run ends done after the last pass.
C3_RegistrationOrder ==
    /\ \A j \in 1..Len(trace) :
          LET i == (j + 1) \div 2
          IN  /\ trace[j].i = i
              /\ trace[j].ev = (IF j % 2 = 1 THEN "check" ELSE "run")
              /\ i <= Len(registered)
              /\ trace[j].pass = registered[i]
              /\ (j < Len(trace) => trace[j].ok)
    /\ (status = "failed") = (trace # <<>> /\ ~trace[Len(trace)].ok)
    /\ (status = "done") => (Len(trace) = 2 * Len(registered))
    /\ (status \in {"done", "failed"}) => (passes = registered)

\* run stopped at the second of three different passes
C3_Witness ==
    /\ status = "failed"
    /\ Len(registered) = 3
    /\ idx = 2
    /\ registered[1] # registered[2]
    /\ registered[2] # registered[3]

\* C4: during and after run, whether it succeeds or fails, the properties of
\* every hook (each iterator, each instruction, the loop list, the workspace
\* list) extend the sequence the hook had when run was called.
C4_PipelineMonotone ==
    (status \in {"checking", "running", "done", "failed"}) => PrefixAll(pre, Props)

\* run ended after adding to a hook that already held a property
C4_Witness ==
    /\ status \in {"done", "failed"}
    /\ \/ (pre.loop # <<>> /\ Len(loop_properties) > Len(pre.loop))
       \/ \E i \in 1..Len(pre.inst) :
              pre.inst[i] # <<>> /\ Len(inst_properties[i]) > Len(pre.inst[i])

\* C5: when run fails at a pass nothing is rolled back: the properties the
\* earlier passes left are still there in their order, and the loop nest is
\* the one the workspace was built with.
C5_NoRollbackOnFailure ==
    (status = "failed") =>
        /\ PrefixAll(snap, Props)
        /\ PrefixAll(pre, snap)
        /\ loop_nest = nest0

\* run failed after an earlier pass had added properties
C5_Witness ==
    /\ status = "failed"
    /\ idx >= 2
    /\ snap # pre
    /\ PropCount > 0

\* C6: on a fresh workspace without architecture and without features, the
\* pipeline [MemAccessAnalysis, FreeDimAnalysis] does not fail.
C6_MemAccessThenFreeDimSucceeds ==
    (/\ passes = <<MemAccessAnalysis, FreeDimAnalysis>>
     /\ arch = "None"
     /\ available_features = <<>>
     /\ pre = PropsRec(Workspace_new_properties(Len(loop_nest.iters)),
                       Workspace_new_properties(Len(loop_nest.body)), <<>>, <<>>))
    => status # "failed"

\* C18: adding a property against an entity that is not registered in the
\* workspace returns an UnknownHook error and leaves every property sequence
\* unchanged; the property is never dropped while success is reported.
C18_UnknownHookIsReported ==
    (last_add.op # "None" /\ ~last_add.known) =>
        last_add.result # "Ok"

----------------------------------------------------------------------------
(* Text of the IR: impl Display and the nom parsers of affine_expr.rs.     *)
(* A text is the sequence of its tokens; white space, which every parser   *)
(* position skips, is not a token. An integer with its sign is one token:  *)
(* Display writes the sign next to the digits and parse_integer reads      *)
(* them together.                                                          *)

Word(w) == [k |-> "word", v |-> w]
Num(n) == [k |-> "int", v |-> n]
Sym(y) == [k |-> "sym", v |-> y]
\* what is left of a word after parse_identifier stopped at its '_'
Junk(w) == [k |-> "junk", v |-> w]

\* the words made of a letter followed by letters and digits
Identifiers ==
    {"x", "y", "n", "m", "s", "k", "n2", "A", "B", "C", "cmp", "add", "Ra", "Rb", "Rc", "Rcmp",
     "EQ", "NE"}
\* the words made of letters, '_', and an identifier: [letters, identifier]
ConstVarNames == {"M_a", "N_b", "K_b"}
ConstVarParts(w) ==
    CASE w = "M_a" -> <<"M", "a">>
      [] w = "N_b" -> <<"N", "b">>
      [] w = "K_b" -> <<"K", "b">>

\* a parser's IResult: Ok((rest, val)) or Err
POk(val, rest) == [ok |-> TRUE, val |-> val, rest |-> rest]
PErr == [ok |-> FALSE, val |-> "None", rest |-> <<>>]

IsSym(input, y) == input # <<>> /\ Head(input).k = "sym" /\ Head(input).v = y
IsWord(input) == input # <<>> /\ Head(input).k = "word"

(* impl fmt::Display for Coeff (affine_expr.rs 393-401)                    *)
RECURSIVE Coeff_fmt(_)
Coeff_fmt(c) ==
    CASE c.tag = "Const" -> <<Num(c.val)>>
      [] c.tag = "ConstVar" -> <<Word(c.name)>>
      [] c.tag = "Mul" -> Coeff_fmt(c.lhs) \o <<Sym("*")>> \o Coeff_fmt(c.rhs)

(* impl fmt::Display for AffineExpr (affine_expr.rs 376-391)               *)
RECURSIVE AffineExpr_fmt(_)
AffineExpr_fmt(e) ==
    CASE e.tag = "Const" -> <<Num(e.val)>>
      [] e.tag = "Var" -> <<Word(e.name)>>
      [] e.tag = "Add" -> AffineExpr_fmt(e.lhs) \o <<Sym("+")>> \o AffineExpr_fmt(e.rhs)
      [] e.tag = "Sub" -> AffineExpr_fmt(e.lhs) \o <<Sym("-")>> \o AffineExpr_fmt(e.rhs)
      [] e.tag = "Mul" ->
            IF e.expr.tag = "Var"
            THEN Coeff_fmt(e.coeff) \o <<Sym("*")>> \o AffineExpr_fmt(e.expr)
            ELSE Coeff_fmt(e.coeff) \o <<Sym("*"), Sym("(")>> \o AffineExpr_fmt(e.expr) \o <<Sym(")")>>
      [] e.tag = "Div" -> AffineExpr_fmt(e.expr) \o <<Sym("/")>> \o Coeff_fmt(e.coeff)
      [] e.tag = "Mod" -> AffineExpr_fmt(e.expr) \o <<Sym("%")>> \o Coeff_fmt(e.coeff)

\* parse_identifier: recognize(pair(alpha1, alphanumeric0)); on a word with a
\* '_' it takes the letters before the '_' and leaves the rest
parse_identifier(input) ==
    IF ~IsWord(input) THEN PErr
    ELSE IF Head(input).v \in Identifiers THEN POk(Head(input).v, Tail(input))
    ELSE IF Head(input).v \in ConstVarNames
    THEN POk(ConstVarParts(Head(input).v)[1], <<Junk(Head(input).v)>> \o Tail(input))
    ELSE PErr

\* parse_integer: an optional sign and digits
parse_integer(input) ==
    IF input # <<>> /\ Head(input).k = "int" THEN POk(Head(input).v, Tail(input)) ELSE PErr

parse_const(input) ==
    LET r == parse_integer(input) IN IF r.ok THEN POk(Const(r.val), r.rest) ELSE PErr

parse_var(input) ==
    LET r == parse_identifier(input) IN IF r.ok THEN POk(Var(r.val), r.rest) ELSE PErr

\* parse_const_var: letters, '_', an identifier
parse_const_var(input) ==
    IF IsWord(input) /\ Head(input).v \in ConstVarNames
    THEN POk(CConstVar(Head(input).v), Tail(input))
    ELSE PErr

\* a parser's result handed to what follows it (the `?` and the closures of
\* the nom combinators)
\* (r is computed once and F is given its value)
and_then(r, F(_)) == CHOOSE y \in {F(x) : x \in {r}} : TRUE

\* nom::branch::alt: the first parser that succeeds
alt(a, b) == and_then(a, LAMBDA r : IF r.ok THEN r ELSE b)

RECURSIVE parse_coeff(_), parse_coeff_many0(_, _), parse_factor_coeff(_)

\* parse_factor_coeff: alt((parse_const_var, integer, '(' parse_coeff ')'))
parse_factor_coeff(input) ==
    alt(parse_const_var(input),
        alt(and_then(parse_integer(input),
                     LAMBDA n : IF n.ok THEN POk(CConst(n.val), n.rest) ELSE PErr),
            IF IsSym(input, "(")
            THEN and_then(parse_coeff(Tail(input)),
                          LAMBDA inner : IF inner.ok /\ IsSym(inner.rest, ")")
                                         THEN POk(inner.val, Tail(inner.rest))
                                         ELSE PErr)
            ELSE PErr))

\* the many0 of parse_coeff and its fold: ('*' parse_factor_coeff)*
parse_coeff_many0(acc, input) ==
    IF IsSym(input, "*")
    THEN and_then(parse_factor_coeff(Tail(input)),
                  LAMBDA item : IF item.ok
                                THEN parse_coeff_many0(CMul(acc, item.val), item.rest)
                                ELSE POk(acc, input))
    ELSE POk(acc, input)

parse_coeff(input) ==
    and_then(parse_factor_coeff(input),
             LAMBDA first : IF first.ok THEN parse_coeff_many0(first.val, first.rest) ELSE PErr)

RECURSIVE parse_expr(_), parse_expr_many0(_, _), parse_term(_), parse_factor(_),
          parse_mul(_), parse_parens(_)

\* parse_mul: a coefficient, then a factor (juxtaposed, or after a '*');
\* the coefficient Const(1) is dropped
parse_mul(input) ==
    and_then(parse_coeff(input),
             LAMBDA c :
                 IF ~c.ok THEN PErr
                 ELSE and_then(alt(parse_factor(c.rest),
                                   IF IsSym(c.rest, "*") THEN parse_factor(Tail(c.rest)) ELSE PErr),
                               LAMBDA expr :
                                   IF ~expr.ok THEN PErr
                                   ELSE IF c.val = CConst(1) THEN POk(expr.val, expr.rest)
                                   ELSE POk(Mul(c.val, expr.val), expr.rest)))

\* parse_parens: '(' parse_expr ')'
parse_parens(input) ==
    IF IsSym(input, "(")
    THEN and_then(parse_expr(Tail(input)),
                  LAMBDA inner : IF inner.ok /\ IsSym(inner.rest, ")")
                                 THEN POk(inner.val, Tail(inner.rest))
                                 ELSE PErr)
    ELSE PErr

\* parse_factor: alt((parse_mul, parse_const, parse_var, parse_parens))
parse_factor(input) ==
    alt(parse_mul(input), alt(parse_const(input), alt(parse_var(input), parse_parens(input))))

\* parse_term: a factor and an optional '/' or '%' with its coefficient
parse_term(input) ==
    and_then(parse_factor(input),
             LAMBDA f :
                 IF ~f.ok THEN PErr
                 ELSE IF IsSym(f.rest, "/") \/ IsSym(f.rest, "%")
                 THEN and_then(parse_coeff(Tail(f.rest)),
                               LAMBDA d :
                                   IF ~d.ok THEN f
                                   ELSE IF IsSym(f.rest, "/") THEN POk(Div(f.val, d.val), d.rest)
                                   ELSE POk(Mod(f.val, d.val), d.rest))
                 ELSE f)

\* the many0 of parse_expr and its fold: (('+' | '-') parse_term)*
parse_expr_many0(acc, input) ==
    IF IsSym(input, "+") \/ IsSym(input, "-")
    THEN and_then(parse_term(Tail(input)),
                  LAMBDA val :
                      IF ~val.ok THEN POk(acc, input)
                      ELSE IF IsSym(input, "+")
                      THEN parse_expr_many0(Add(acc, val.val), val.rest)
                      ELSE parse_expr_many0(Sub(acc, val.val), val.rest))
    ELSE POk(acc, input)

parse_expr(input) ==
    and_then(parse_term(input),
             LAMBDA init : IF init.ok THEN parse_expr_many0(init.val, init.rest) ELSE PErr)

(* impl fmt::Display for Instruction, Operand, Compute (instruction.rs     *)
(* 263-336); "$" and the digits of an immediate are one token              *)

ImmTok(i) == [k |-> "imm", v |-> i]

\* " ({} {})" when cond is Some
Cond_fmt(x) ==
    IF x.cond # "None" THEN <<Sym("("), Word(x.cond_suffix), Word(x.cond), Sym(")")>> ELSE <<>>

Operand_fmt(o) == IF o.tag = "Reg" THEN Word(o.reg) ELSE ImmTok(o.imm)

Compute_fmt(c) ==
    <<Word(c.op), Word(c.dst)>>
    \o Flatten([j \in 1..Len(c.src) |->
                   IF j = 1 THEN <<Operand_fmt(c.src[j])>> ELSE <<Sym(","), Operand_fmt(c.src[j])>>])
    \o Cond_fmt(c)

DataAccess_fmt(arrow, da) ==
    <<Word(da.reg), Sym(arrow), Word(da.array_name)>>
    \o Flatten([j \in 1..Len(da.addr) |-> <<Sym("[")>> \o AffineExpr_fmt(da.addr[j]) \o <<Sym("]")>>])
    \o Cond_fmt(da)

Instruction_fmt(inst) ==
    CASE inst.tag = "DataLoad" -> DataAccess_fmt("<=", inst.access)
      [] inst.tag = "DataStore" -> DataAccess_fmt("=>", inst.access)
      [] inst.tag = "Compute" -> Compute_fmt(inst)

(* the nom parsers of instruction.rs (68-229)                              *)

\* the words that start with 'R' and go on with letters and digits
RegWords == {"Ra", "Rb", "Rc", "Rcmp"}
CondCodes == {"EQ", "NE", "LT", "LE", "GT", "GE"}

\* parse_var_id: recognize(pair(alpha1, alphanumeric0))
parse_var_id(input) == parse_identifier(input)

\* parse_reg_id: recognize(pair(char('R'), alphanumeric0))
parse_reg_id(input) ==
    IF IsWord(input) /\ Head(input).v \in RegWords THEN POk(Head(input).v, Tail(input)) ELSE PErr

\* parse_immediate: recognize(pair(char('$'), digit1)), read by Operand::from_str
parse_immediate(input) ==
    IF input # <<>> /\ Head(input).k = "imm" /\ Head(input).v >= 0
    THEN POk(Imm(Head(input).v), Tail(input))
    ELSE PErr

\* parse_src: alt((parse_reg_id, parse_immediate)), read by Operand::from_str
parse_src(input) ==
    alt(and_then(parse_reg_id(input),
                 LAMBDA r : IF r.ok THEN POk(Reg(r.val), r.rest) ELSE PErr),
        parse_immediate(input))

\* the separated_list0 of parse_indices: parse_var_id ("][" parse_var_id)*
RECURSIVE parse_indices_more(_, _)
parse_indices_more(acc, input) ==
    IF IsSym(input, "]") /\ IsSym(Tail(input), "[")
    THEN and_then(parse_var_id(Tail(Tail(input))),
                  LAMBDA next : IF next.ok
                                THEN parse_indices_more(Append(acc, next.val), next.rest)
                                ELSE POk(acc, input))
    ELSE POk(acc, input)

\* parse_indices:
\* delimited(tag("["), separated_list0(tag("]["), parse_var_id), tag("]"))
parse_indices(input) ==
    IF ~IsSym(input, "[") THEN PErr
    ELSE and_then(and_then(parse_var_id(Tail(input)),
                           LAMBDA first : IF first.ok
                                          THEN parse_indices_more(<<first.val>>, first.rest)
                                          ELSE POk(<<>>, Tail(input))),
                  LAMBDA list : IF IsSym(list.rest, "]")
                                THEN POk(list.val, Tail(list.rest))
                                ELSE PErr)

\* parse_condition: '(' cond_code reg ')'
parse_condition(input) ==
    IF IsSym(input, "(") /\ IsWord(Tail(input)) /\ Head(Tail(input)).v \in CondCodes
    THEN and_then(parse_reg_id(Tail(Tail(input))),
                  LAMBDA reg : IF reg.ok /\ IsSym(reg.rest, ")")
                               THEN POk([cond_suffix |-> Head(Tail(input)).v, cond |-> reg.val],
                                        Tail(reg.rest))
                               ELSE PErr)
    ELSE PErr

\* opt(preceded(.., parse_condition)): None, and nothing consumed, on an error
opt_parse_condition(input) ==
    alt(parse_condition(input), POk([cond_suffix |-> "None", cond |-> "None"], input))

\* parse_data_load / parse_data_store: reg, the arrow, the array, the
\* indices, an optional condition; each index is then given to parse_expr
parse_data_access(arrow, input) ==
    and_then(parse_reg_id(input), LAMBDA reg :
        IF ~(reg.ok /\ IsSym(reg.rest, arrow)) THEN PErr
        ELSE and_then(parse_var_id(Tail(reg.rest)), LAMBDA array :
            IF ~array.ok THEN PErr
            ELSE and_then(parse_indices(array.rest), LAMBDA idxs :
                IF ~idxs.ok THEN PErr
                ELSE and_then(opt_parse_condition(idxs.rest), LAMBDA cond :
                    POk([array_name |-> array.val,
                         addr |-> [j \in 1..Len(idxs.val) |->
                                      parse_expr(<<Word(idxs.val[j])>>).val],
                         reg |-> reg.val,
                         cond_suffix |-> cond.val.cond_suffix,
                         cond |-> cond.val.cond],
                        cond.rest)))))

parse_data_load(input) ==
    and_then(parse_data_access("<=", input),
             LAMBDA r : IF r.ok THEN POk(DataLoad(r.val), r.rest) ELSE PErr)

parse_data_store(input) ==
    and_then(parse_data_access("=>", input),
             LAMBDA r : IF r.ok THEN POk(DataStore(r.val), r.rest) ELSE PErr)

\* the separated_list1 of parse_compute: parse_src (',' parse_src)*
RECURSIVE parse_srcs_more(_, _)
parse_srcs_more(acc, input) ==
    IF IsSym(input, ",")
    THEN and_then(parse_src(Tail(input)),
                  LAMBDA next : IF next.ok
                                THEN parse_srcs_more(Append(acc, next.val), next.rest)
                                ELSE POk(acc, input))
    ELSE POk(acc, input)

\* parse_compute: op (alphanumeric1), dst, the sources, an optional condition
parse_compute(input) ==
    IF ~(IsWord(input) /\ Head(input).v \in Identifiers) THEN PErr
    ELSE and_then(parse_reg_id(Tail(input)), LAMBDA dst :
        IF ~dst.ok THEN PErr
        ELSE and_then(parse_src(dst.rest), LAMBDA first :
            IF ~first.ok THEN PErr
            ELSE and_then(parse_srcs_more(<<first.val>>, first.rest), LAMBDA srcs :
                and_then(opt_parse_condition(srcs.rest), LAMBDA cond :
                    POk([tag |-> "Compute", op |-> Head(input).v, src |-> srcs.val,
                         dst |-> dst.val,
                         cond_suffix |-> cond.val.cond_suffix, cond |-> cond.val.cond],
                        cond.rest)))))

\* parse_instruction: alt((parse_data_load, parse_data_store, parse_compute))
parse_instruction(input) ==
    alt(parse_data_load(input), alt(parse_data_store(input), parse_compute(input)))

----------------------------------------------------------------------------
(* Display and the nom parsers of loops.rs (35-114), and the derived       *)
(* Serialize / Deserialize of LoopNest (loops.rs 16-21)                    *)

\* the words made of letters only
AlphaWords == {w \in Identifiers : w # "n2"}
\* the letters a word that is not made of letters only starts with
AlphaPrefix(w) == IF w = "n2" THEN "n" ELSE ConstVarParts(w)[1]

\* impl fmt::Display for LoopIter: "for n in (lo..hi)", and ".step(s)" when
\* the step is not 1
LoopIter_fmt(it) ==
    <<Word("for"), Word(it.iter_name), Word("in"),
      Sym("("), Num(it.bounds[1]), Sym(".."), Num(it.bounds[2]), Sym(")")>>
    \o (IF it.step # 1 THEN <<Sym("."), Word("step"), Sym("("), Num(it.step), Sym(")")>>
        ELSE <<>>)

\* loops.rs parse_identifier: alpha1
loops_parse_identifier(input) ==
    IF ~IsWord(input) THEN PErr
    ELSE IF Head(input).v \in AlphaWords THEN POk(Head(input).v, Tail(input))
    ELSE POk(AlphaPrefix(Head(input).v), <<Junk(Head(input).v)>> \o Tail(input))

\* parse_number: digit1, no sign
parse_number(input) ==
    IF input # <<>> /\ Head(input).k = "int" /\ Head(input).v >= 0
    THEN POk(Head(input).v, Tail(input))
    ELSE PErr

\* parse_range: '(' number ".." number ')'
parse_range(input) ==
    IF ~IsSym(input, "(") THEN PErr
    ELSE and_then(parse_number(Tail(input)), LAMBDA start :
        IF ~(start.ok /\ IsSym(start.rest, "..")) THEN PErr
        ELSE and_then(parse_number(Tail(start.rest)), LAMBDA end :
            IF end.ok /\ IsSym(end.rest, ")")
            THEN POk(<<start.val, end.val>>, Tail(end.rest))
            ELSE PErr))

\* parse_step: ".step(" number ')'
parse_step(input) ==
    IF Len(input) >= 3 /\ IsSym(input, ".") /\ IsWord(Tail(input))
       /\ input[2].v = "step" /\ IsSym(Tail(Tail(input)), "(")
    THEN and_then(parse_number(SubSeq(input, 4, Len(input))), LAMBDA step :
             IF step.ok /\ IsSym(step.rest, ")")
             THEN POk(step.val, Tail(step.rest))
             ELSE PErr)
    ELSE PErr

\* parse_loop_iter: "for" name "in" range, an optional step (1 when absent)
parse_loop_iter(input) ==
    IF ~(IsWord(input) /\ Head(input).v = "for") THEN PErr
    ELSE and_then(loops_parse_identifier(Tail(input)), LAMBDA name :
        IF ~(name.ok /\ IsWord(name.rest) /\ Head(name.rest).v = "in") THEN PErr
        ELSE and_then(parse_range(Tail(name.rest)), LAMBDA range :
            IF ~range.ok THEN PErr
            ELSE and_then(parse_step(range.rest), LAMBDA step :
                POk(LoopIter(name.val, range.val[1], range.val[2],
                             IF step.ok THEN step.val ELSE 1),
                    IF step.ok THEN step.rest ELSE range.rest))))

\* #[derive(Serialize)] for LoopNest: every iterator and every instruction is
\* written by its own Serialize (to_string), properties: None as null
LoopNest_serialize(x) ==
    [iters |-> [j \in 1..Len(x.iters) |-> LoopIter_fmt(x.iters[j])],
     body |-> [j \in 1..Len(x.body) |-> Instruction_fmt(x.body[j])],
     properties |-> IF x.properties = "None" THEN "null" ELSE x.properties]

\* #[derive(Deserialize)] for LoopNest: every element is read by its own
\* Deserialize (parse_loop_iter, parse_instruction; text left over is
\* ignored), and the first error is the result
LoopNest_deserialize(text) ==
    and_then([j \in 1..Len(text.iters) |-> parse_loop_iter(text.iters[j])], LAMBDA its :
        and_then([j \in 1..Len(text.body) |-> parse_instruction(text.body[j])], LAMBDA insts :
            IF (\A j \in 1..Len(its) : its[j].ok) /\ (\A j \in 1..Len(insts) : insts[j].ok)
            THEN POk([tag |-> "LoopNest",
                      iters |-> [j \in 1..Len(its) |-> its[j].val],
                      body |-> [j \in 1..Len(insts) |-> insts[j].val],
                      properties |-> IF text.properties = "null" THEN "None"
                                     ELSE text.properties],
                     <<>>)
            ELSE PErr))

\* transforms.rs parse_identifier: take_while1(alphanumeric or '_')
TransformWords == Identifiers \cup ConstVarNames

\* the transform parser reads the text of transform t back as t: the names
\* are identifiers and the factor is written with digits only
parse_transform_accepts(t) ==
    CASE t.tag = "Tiling" -> {t.old, t.new} \subseteq TransformWords /\ t.factor >= 0
      [] t.tag \in {"Renaming"} -> {t.old, t.new} \subseteq TransformWords
      [] t.tag = "Reorder" -> {t.iter1, t.iter2} \subseteq TransformWords
      [] OTHER -> t.iter \in TransformWords

\* tests/test_transforms.rs 17: serde_yaml::to_string(&transformed_loop_prob)
SerializeLoopNest ==
    /\ t_pc = "returned" /\ r_pc = "off"
    /\ r_in' = new_self
    /\ r_text' = LoopNest_serialize(new_self)
    /\ r_pc' = "printed"
    /\ UNCHANGED r_out

\* tests/test_transforms.rs 25: serde_yaml::from_str(&yaml_str)
DeserializeLoopNest ==
    /\ t_pc = "returned" /\ r_pc = "printed"
    /\ r_out' = LoopNest_deserialize(r_text)
    /\ r_pc' = "parsed"
    /\ UNCHANGED <<r_in, r_text>>

TNext ==
    \/ (ApplyAllClone /\ UNCHANGED <<wvars, pvars, last_add, rvars>>)
    \/ (ApplyTiling /\ UNCHANGED <<wvars, pvars, last_add, rvars>>)
    \/ (ApplyRenaming /\ UNCHANGED <<wvars, pvars, last_add, rvars>>)
    \/ (ApplyReorder /\ UNCHANGED <<wvars, pvars, last_add, rvars>>)
    \/ (ApplyMapping /\ UNCHANGED <<wvars, pvars, last_add, rvars>>)
    \/ (ApplyAllReturn /\ UNCHANGED <<wvars, pvars, last_add, rvars>>)
    \/ (SerializeLoopNest /\ UNCHANGED <<tvars, wvars, pvars, last_add>>)
    \/ (DeserializeLoopNest /\ UNCHANGED <<tvars, wvars, pvars, last_add>>)

SpecT == TInit /\ [][TNext]_vars

\* nest x is one that deserialisation yields: its text is read back as x
Deserialised(x) ==
    LET r == LoopNest_deserialize(LoopNest_serialize(x)) IN r.ok /\ r.val = x

\* C21: for every loop nest obtained by deserialisation and every script the
\* transform parser accepts whose transforms all apply, serialising the nest
\* apply_all returned and deserialising that text succeeds and yields a nest
\* equal to the transformed nest.
C21_TransformedNestRoundTrip ==
    (/\ r_pc = "parsed" /\ t_pc = "returned"
     /\ Deserialised(t_self)
     /\ \A j \in 1..Len(t_script) : parse_transform_accepts(t_script[j]))
        => (r_out.ok /\ r_out.val = new_self)

----------------------------------------------------------------------------
(* Inputs of the round-trip specification                                  *)

RVars == {Var("x"), Var("y")}
RLeaves == RVars \cup {Const(3), Const(-2)}
RCoeffs ==
    {CConst(2), CConst(1), CConst(-2), CConstVar("M_a"),
     CMul(CConst(2), CConstVar("M_a")),
     CMul(CConstVar("M_a"), CMul(CConst(2), CConstVar("N_b")))}

\* one operator over leaves
RExprs1 ==
    RLeaves
    \cup {Add(a, b) : a \in RLeaves, b \in RLeaves}
    \cup {Sub(a, b) : a \in RLeaves, b \in RLeaves}
    \cup {Mul(c, a) : c \in RCoeffs, a \in RLeaves}
    \cup {Div(a, c) : a \in RLeaves, c \in RCoeffs}
    \cup {Mod(a, c) : a \in RLeaves, c \in RCoeffs}

\* one operator over those, nested on the left or on the right
RExprs ==
    RExprs1
    \cup {Add(a, b) : a \in RExprs1, b \in RVars} \cup {Add(a, b) : a \in RVars, b \in RExprs1}
    \cup {Sub(a, b) : a \in RExprs1, b \in RVars} \cup {Sub(a, b) : a \in RVars, b \in RExprs1}
    \cup {Mul(c, a) : c \in {CConst(2), CConstVar("M_a")}, a \in RExprs1}
    \cup {Div(a, c) : a \in RExprs1, c \in {CConst(2)}}
    \cup {Mod(a, c) : a \in RExprs1, c \in {CConstVar("M_a")}}

RAddrs ==
    {<<Var("n")>>, <<Var("m"), Var("n")>>, <<Const(3)>>,
     <<Add(Mul(CConst(2), Var("s")), Var("n"))>>, <<Var("m"), Sub(Var("n"), Const(3))>>}

RConds == {[cond_suffix |-> "None", cond |-> "None"], [cond_suffix |-> "EQ", cond |-> "Rc"]}

WithCond(x, c) == [x EXCEPT !.cond_suffix = c.cond_suffix, !.cond = c.cond]

RInsts ==
    {DataLoad(WithCond(DataAccess("B", a, "Rb"), c)) : a \in RAddrs, c \in RConds}
    \cup {DataStore(WithCond(DataAccess("B", a, "Ra"), c)) : a \in RAddrs, c \in RConds}
    \cup {WithCond(Compute("cmp", src, "Rcmp"), c) :
             src \in {<<Reg("Ra"), Imm(0)>>, <<Reg("Ra")>>, <<Reg("Ra"), Reg("Rb"), Imm(1)>>},
             c \in RConds}

IsInstruction(x) == x.tag \in {"DataLoad", "DataStore", "Compute"}

----------------------------------------------------------------------------
(* to_string followed by the parser (the Serialize / Deserialize impls,    *)
(* affine_expr.rs 221-242 and instruction.rs 352-373)                      *)

\* impl Serialize for AffineExpr: self.to_string()
SerializeAffineExpr ==
    /\ r_pc = "start" /\ ~IsInstruction(r_in)
    /\ r_text' = AffineExpr_fmt(r_in)
    /\ r_pc' = "printed"
    /\ UNCHANGED <<r_in, r_out>>

\* impl Deserialize for AffineExpr: parse_expr(&s).map(|(_, expr)| expr)
DeserializeAffineExpr ==
    /\ r_pc = "printed" /\ ~IsInstruction(r_in)
    /\ r_out' = parse_expr(r_text)
    /\ r_pc' = "parsed"
    /\ UNCHANGED <<r_in, r_text>>

\* impl Serialize for Instruction: self.to_string()
SerializeInstruction ==
    /\ r_pc = "start" /\ IsInstruction(r_in)
    /\ r_text' = Instruction_fmt(r_in)
    /\ r_pc' = "printed"
    /\ UNCHANGED <<r_in, r_out>>

\* impl Deserialize for Instruction: parse_instruction(&s).map(|(_, instr)| instr)
DeserializeInstruction ==
    /\ r_pc = "printed" /\ IsInstruction(r_in)
    /\ r_out' = parse_instruction(r_text)
    /\ r_pc' = "parsed"
    /\ UNCHANGED <<r_in, r_text>>

RInit ==
    /\ r_in \in RExprs \cup RInsts
    /\ r_text = <<>>
    /\ r_out = PErr
    /\ r_pc = "start"
    /\ PipelineOff
    /\ TransformsOff

RNext ==
    \/ (SerializeAffineExpr /\ UNCHANGED <<tvars, wvars, pvars, last_add>>)
    \/ (DeserializeAffineExpr /\ UNCHANGED <<tvars, wvars, pvars, last_add>>)
    \/ (SerializeInstruction /\ UNCHANGED <<tvars, wvars, pvars, last_add>>)
    \/ (DeserializeInstruction /\ UNCHANGED <<tvars, wvars, pvars, last_add>>)

SpecR == RInit /\ [][RNext]_vars

----------------------------------------------------------------------------
(* Properties of the round trips, checked under SpecR                      *)

\* C19: for every AffineExpr e built from Var, Const, Add, Sub, Mul, Div, Mod
\* (Coeff from Const, ConstVar, Mul), parsing the printed text of e yields a
\* value equal to e: right-nested Add/Sub, Div or Mod of an Add or Sub, Mul
\* with coefficient Const(1) and negative constants included.
C19_AffineRoundTrip ==
    (r_pc = "parsed" /\ ~IsInstruction(r_in)) => (r_out.ok /\ r_out.val = r_in)

\* C20: for every Instruction i (DataLoad, DataStore or Compute, with or
\* without a condition, its address indices being any AffineExpr), parsing
\* the printed text of i yields an instruction equal to i.
C20_InstructionRoundTrip ==
    (r_pc = "parsed" /\ IsInstruction(r_in)) => (r_out.ok /\ r_out.val = r_in)

----------------------------------------------------------------------------
(* Properties of the iterators of a transformed nest, checked under SpecT  *)

\* lo <= hi and step >= 1
WellFormedIter(it) == it.bounds[1] <= it.bounds[2] /\ it.step >= 1

\* C26: every iterator of every nest a sequence of successful Tiling,
\* Renaming and Reorder applications reaches from a nest whose iterators
\* satisfy lo <= hi and step >= 1 still satisfies lo <= hi and step >= 1
\* (every nest of TInit satisfies it, and a successful Tiling has factor > 0).
C26_IterBoundsInvariant ==
    new_self.tag = "LoopNest" =>
        \A i \in 1..Len(new_self.iters) : WellFormedIter(new_self.iters[i])

\* the latest loop iteration applied a Reorder and it succeeded
ReorderedLast == AppliedLast /\ t_last.tag = "Reorder" /\ ~IsPanic(new_self)

\* exactly one iterator of nest x is named n
NamedOnce(x, n) == Cardinality({j \in 1..Len(x.iters) : x.iters[j].iter_name = n}) = 1

\* C29 as stated: for every nest containing iterators a and b, Reorder(a, b)
\* and Reorder(b, a) give equal nests, Reorder(a, b) applied twice gives back
\* the original nest, and Reorder changes neither the number of iterators nor
\* the body length.
C29_ReorderInvolutionAlways ==
    ReorderedLast =>
        /\ new_self = LoopNest_apply(t_prev, Reorder(t_last.iter2, t_last.iter1))
        /\ LoopNest_apply(new_self, t_last) = t_prev
        /\ Len(new_self.iters) = Len(t_prev.iters)
        /\ Len(new_self.body) = Len(t_prev.body)

\* C29 (amended): for every nest containing iterators a and b, Reorder(a, b)
\* and Reorder(b, a) give equal nests and change neither the number of
\* iterators nor the body length; when a and b each name exactly one iterator
\* of the nest, Reorder(a, b) applied twice gives back the original nest.
C29_ReorderInvolution ==
    ReorderedLast =>
        /\ new_self = LoopNest_apply(t_prev, Reorder(t_last.iter2, t_last.iter1))
        /\ Len(new_self.iters) = Len(t_prev.iters)
        /\ Len(new_self.body) = Len(t_prev.body)
        /\ (NamedOnce(t_prev, t_last.iter1) /\ NamedOnce(t_prev, t_last.iter2))
               => LoopNest_apply(new_self, t_last) = t_prev

\* a Reorder moved two distinct, uniquely named iterators of a three-iterator nest
C29_Witness ==
    /\ ReorderedLast
    /\ t_last.iter1 # t_last.iter2
    /\ NamedOnce(t_prev, t_last.iter1) /\ NamedOnce(t_prev, t_last.iter2)
    /\ Len(t_prev.iters) = 3
    /\ new_self.iters # t_prev.iters

\* the latest loop iteration applied a Tiling and it succeeded
TiledOk == TiledLast /\ ~IsPanic(new_self)

\* the size of the iteration space: the product of (hi - lo) over the iterators
RECURSIVE SpaceSize(_)
SpaceSize(iters) ==
    IF iters = <<>> THEN 1
    ELSE (Head(iters).bounds[2] - Head(iters).bounds[1]) * SpaceSize(Tail(iters))

\* the iterator names of nest x are pairwise distinct
DistinctNames(x) == Cardinality(IterNames(x)) = Len(x.iters)

\* the iterator the Tiling names has bounds (0, hi) and step 1
TiledFromZero ==
    LET it == t_prev.iters[FirstNamed(t_prev, t_last.old)]
    IN  it.bounds[1] = 0 /\ it.step = 1

\* C30 as stated: a successful Tiling(old, new, factor) on an iterator old
\* with bounds (0, hi) and step 1 keeps the product over all iterators of
\* (hi - lo), grows the iterator count by one, keeps the body length, and
\* keeps the names pairwise distinct when new was no iterator name.
C30_TilingPreservesSpaceAlways ==
    (TiledOk /\ TiledFromZero) =>
        /\ SpaceSize(new_self.iters) = SpaceSize(t_prev.iters)
        /\ Len(new_self.iters) = Len(t_prev.iters) + 1
        /\ Len(new_self.body) = Len(t_prev.body)
        /\ (DistinctNames(t_prev) /\ t_last.new \notin IterNames(t_prev))
               => DistinctNames(new_self)

\* C30 (amended): a successful Tiling(old, new, factor) on an iterator old
\* with bounds (0, hi) and step 1 grows the iterator count by one and keeps
\* the body length; when old names exactly one iterator of the nest it keeps
\* the product over all iterators of (hi - lo); and it keeps the names
\* pairwise distinct when new was no iterator name.
C30_TilingPreservesSpace ==
    (TiledOk /\ TiledFromZero) =>
        /\ NamedOnce(t_prev, t_last.old)
               => SpaceSize(new_self.iters) = SpaceSize(t_prev.iters)
        /\ Len(new_self.iters) = Len(t_prev.iters) + 1
        /\ Len(new_self.body) = Len(t_prev.body)
        /\ (DistinctNames(t_prev) /\ t_last.new \notin IterNames(t_prev))
               => DistinctNames(new_self)

\* a Tiling split the only iterator named old, (0, hi) with step 1, of a nest
\* with another iterator and a non-empty iteration space
C30_Witness ==
    /\ TiledOk /\ TiledFromZero
    /\ NamedOnce(t_prev, t_last.old)
    /\ Len(t_prev.iters) >= 2
    /\ SpaceSize(t_prev.iters) > 0
    /\ t_last.new \notin IterNames(t_prev)

----------------------------------------------------------------------------
(* Properties of the analysis passes and of the workspace, checked under   *)
(* Spec                                                                    *)

\* the pass at idx is about to run
Running(kind) == status = "running" /\ passes[idx].kind = kind

\* the latest pass that returned is of that kind and returned Ok
RanLast(kind) ==
    /\ trace # <<>>
    /\ trace[Len(trace)].ev = "run" /\ trace[Len(trace)].ok
    /\ trace[Len(trace)].pass.kind = kind

IsMemory(inst) == inst.tag \in {"DataLoad", "DataStore"}

\* the variable names met in a left-to-right walk of an address expression
RECURSIVE VarsInOrder(_)
VarsInOrder(e) ==
    IF e.tag = "Var" THEN <<e.name>>
    ELSE IF e.tag = "Const" THEN <<>>
    ELSE IF e.tag \in {"Add", "Sub"} THEN VarsInOrder(e.lhs) \o VarsInOrder(e.rhs)
    ELSE VarsInOrder(e.expr)

\* the walks of the indices of an access, in index order
AccessedDims(inst) ==
    Flatten([j \in 1..Len(inst.access.addr) |-> VarsInOrder(inst.access.addr[j])])

\* C22 as stated: MemAccessAnalysis attaches to every DataLoad and DataStore
\* an accessed-dims property holding the variable names of its address
\* expressions in walk order, duplicates kept, and to every Compute an
\* accessed-dims property that is empty.
C22_MemAccessAttachesToAll ==
    [][Running("MemAccessAnalysis") =>
          \A i \in 1..Len(loop_nest.body) :
              inst_properties'[i] =
                  Append(inst_properties[i],
                         MemAccessProp(IF IsMemory(loop_nest.body[i])
                                       THEN AccessedDims(loop_nest.body[i])
                                       ELSE <<>>))]_vars

\* C22 (amended): MemAccessAnalysis attaches to every DataLoad and DataStore
\* an accessed-dims property holding the variable names of its address
\* expressions in walk order, duplicates kept; to a Compute it attaches no
\* property.
C22_MemAccessAttaches ==
    [][Running("MemAccessAnalysis") =>
          \A i \in 1..Len(loop_nest.body) :
              inst_properties'[i] =
                  IF IsMemory(loop_nest.body[i])
                  THEN Append(inst_properties[i], MemAccessProp(AccessedDims(loop_nest.body[i])))
                  ELSE inst_properties[i]]_vars

\* MemAccessAnalysis ran on a body with a store that names m twice and k as a
\* divisor only, and with a Compute
C22_Witness ==
    /\ RanLast("MemAccessAnalysis")
    /\ \E i \in 1..Len(loop_nest.body) :
           /\ loop_nest.body[i].tag = "DataStore"
           /\ inst_properties[i] # <<>>
           /\ inst_properties[i][Len(inst_properties[i])] = MemAccessProp(<<"m", "m", "n">>)
    /\ \E i \in 1..Len(loop_nest.body) :
           loop_nest.body[i].tag = "Compute" /\ inst_properties[i] = <<>>

\* the iterator names, in nest order, that are no variable of the addresses
\* of the instruction
FreeDims(nest, inst) ==
    LET used == IF IsMemory(inst)
                THEN UNION {ExprVars(inst.access.addr[j]) : j \in 1..Len(inst.access.addr)}
                ELSE {}
    IN  SelectSeq([j \in 1..Len(nest.iters) |-> nest.iters[j].iter_name],
                  LAMBDA n : n \notin used)

C25_InstPassAppendsPerInstruction ==
    [][Running("MemAccessAnalysis") =>
          /\ Len(inst_properties') = Len(loop_nest.body)
          /\ \A i \in 1..Len(loop_nest.body) :
                 inst_properties'[i] =
                     inst_properties[i] \o MemAccessAnalysis_analyze_inst(loop_nest.body[i])
          /\ iter_properties' = iter_properties
          /\ loop_properties' = loop_properties]_vars

\* the pass ran on a body with two equal instructions, one of which already
\* held a property, and each of them got its own
C25_Witness ==
    /\ RanLast("MemAccessAnalysis")
    /\ Len(loop_nest.body) = 2 /\ loop_nest.body[1] = loop_nest.body[2]
    /\ Len(inst_properties[1]) = 1
    /\ Len(inst_properties[2]) = 2 /\ inst_properties[2][1] = Note

\* C28: the workspace holds one property sequence per iterator and one per
\* instruction of its nest, all of them empty right after new, and no add
\* operation modifies the nest or the available features.
C28_OneSequencePerEntity ==
    /\ [](/\ Len(iter_properties) = Len(loop_nest.iters)
          /\ Len(inst_properties) = Len(loop_nest.body)
          /\ loop_nest = nest0
          /\ (status = "idle" /\ last_add = NoAdd) =>
                 /\ \A i \in 1..Len(iter_properties) : iter_properties[i] = <<>>
                 /\ \A i \in 1..Len(inst_properties) : inst_properties[i] = <<>>)
    /\ [][last_add' # last_add =>
              loop_nest' = loop_nest /\ available_features' = available_features]_vars

\* add_inst_property was called with the index one past the last instruction
\* and a pass then filed a property
C28_Witness ==
    /\ last_add.op = "add_inst_property" /\ ~last_add.known
    /\ status = "done"
    /\ PropCount > 0

----------------------------------------------------------------------------
(* Coeff::normalize, Coeff::simplify and AffineExpr::simplify              *)
(* (affine_expr.rs 34-219)                                                 *)

\* the inner match of the (Const(c1), Mul(e1, e2)) and (Mul(e1, e2), Const(c1))
\* arms of Coeff::simplify (affine_expr.rs 70-81, 82-93)
Coeff_simplify_fold(c1, e1, e2) ==
    IF e1.tag = "Const" THEN CMul(CConst(c1 * e1.val), e2)
    ELSE IF e2.tag = "Const" THEN CMul(CConst(c1 * e2.val), e1)
    ELSE CMul(CConst(c1), CMul(e1, e2))

\* the match of Coeff::simplify on the simplified operands (affine_expr.rs 64-97)
Coeff_simplify_Mul(e1, e2) ==
    IF e1 = CConst(0) THEN CConst(0)
    ELSE IF e2 = CConst(0) THEN CConst(0)
    ELSE IF e1 = CConst(1) THEN e2
    ELSE IF e2 = CConst(1) THEN e1
    ELSE IF e1.tag = "Const" /\ e2.tag = "Const" THEN CConst(e1.val * e2.val)
    ELSE IF e1.tag = "Const" /\ e2.tag = "Mul" THEN Coeff_simplify_fold(e1.val, e2.lhs, e2.rhs)
    ELSE IF e1.tag = "Mul" /\ e2.tag = "Const" THEN Coeff_simplify_fold(e2.val, e1.lhs, e1.rhs)
    ELSE CMul(e1, e2)

\* Coeff::simplify (affine_expr.rs 57-100)
RECURSIVE Coeff_simplify(_)
Coeff_simplify(c) ==
    IF c.tag = "Mul"
    THEN Coeff_simplify_Mul(Coeff_simplify(c.lhs), Coeff_simplify(c.rhs))
    ELSE c

\* the match of Coeff::normalize on the normalized operands (affine_expr.rs 44-49)
Coeff_normalize_Mul(e1, e2) ==
    IF e1.tag = "Const" \/ e2.tag = "Const" THEN CMul(e2, e1) ELSE CMul(e1, e2)

\* Coeff::normalize (affine_expr.rs 36-52); e is self.simplify()
RECURSIVE Coeff_normalize(_)
Coeff_normalize_of(c, e) ==
    IF e.tag = "Mul"
    THEN Coeff_normalize_Mul(Coeff_normalize(e.lhs), Coeff_normalize(e.rhs))
    ELSE c

Coeff_normalize(c) == Coeff_normalize_of(c, Coeff_simplify(c))

\* the inner match of the (Const(c1), Add(e1, e2)) and (Add(e1, e2), Const(c1))
\* arms of AffineExpr::simplify (affine_expr.rs 122-135, 138-151)
AffineExpr_simplify_fold_Add(c1, e1, e2) ==
    IF e1.tag = "Const" THEN Add(Const(c1 + e1.val), e2)
    ELSE IF e2.tag = "Const" THEN Add(Const(c1 + e2.val), e1)
    ELSE Add(Const(c1), Add(e1, e2))

\* the inner match of the (Const(c1), Sub(e1, e2)) and (Sub(e1, e2), Const(c))
\* arms of AffineExpr::simplify (affine_expr.rs 155-168, 171-184)
AffineExpr_simplify_fold_Sub(c1, e1, e2) ==
    IF e1.tag = "Const" THEN Add(Const(c1 - e1.val), e2)
    ELSE IF e2.tag = "Const" THEN Sub(Const(c1 + e2.val), e1)
    ELSE Add(Const(c1), Sub(e1, e2))

\* the match of the Add arm on the simplified operands (affine_expr.rs 113-193)
AffineExpr_simplify_Add(e1, e2) ==
    IF e1.tag = "Const" /\ e2.tag = "Const" THEN Const(e1.val + e2.val)
    ELSE IF e1 = Const(0) THEN e2
    ELSE IF e2 = Const(0) THEN e1
    ELSE IF e1.tag = "Const" /\ e2.tag = "Add"
         THEN AffineExpr_simplify_fold_Add(e1.val, e2.lhs, e2.rhs)
    ELSE IF e1.tag = "Add" /\ e2.tag = "Const"
         THEN AffineExpr_simplify_fold_Add(e2.val, e1.lhs, e1.rhs)
    ELSE IF e1.tag = "Const" /\ e2.tag = "Sub"
         THEN AffineExpr_simplify_fold_Sub(e1.val, e2.lhs, e2.rhs)
    ELSE IF e1.tag = "Sub" /\ e2.tag = "Const"
         THEN AffineExpr_simplify_fold_Sub(e2.val, e1.lhs, e1.rhs)
    ELSE IF e2.tag = "Const" THEN Add(Const(e2.val), e1)
    ELSE Add(e1, e2)

\* AffineExpr::simplify (affine_expr.rs 106-218)
RECURSIVE AffineExpr_simplify(_)
AffineExpr_simplify(e) ==
    CASE e.tag \in {"Const", "Var", "Sub"} -> e
      [] e.tag = "Add" ->
            AffineExpr_simplify_Add(AffineExpr_simplify(e.lhs), AffineExpr_simplify(e.rhs))
      [] e.tag = "Mul" -> Mul(Coeff_normalize(e.coeff), AffineExpr_simplify(e.expr))
      [] e.tag = "Div" -> Div(AffineExpr_simplify(e.expr), Coeff_normalize(e.coeff))
      [] e.tag = "Mod" -> Mod(AffineExpr_simplify(e.expr), Coeff_normalize(e.coeff))

----------------------------------------------------------------------------
(* Inputs of the simplification specification                              *)

SCoeffLeaves ==
    {CConst(0), CConst(1), CConst(2), CConst(-2), CConstVar("M_a"), CConstVar("N_b")}
SCoeffs1 == SCoeffLeaves \cup {CMul(a, b) : a \in SCoeffLeaves, b \in SCoeffLeaves}
SCoeffs ==
    SCoeffs1
    \cup {CMul(a, b) : a \in SCoeffLeaves, b \in SCoeffs1}
    \cup {CMul(a, b) : a \in SCoeffs1, b \in SCoeffLeaves}

\* the coefficients of the expressions: none of them evaluates to 0
SExprCoeffs ==
    {CConst(2), CConstVar("M_a"), CMul(CConst(2), CConstVar("M_a")),
     CMul(CConstVar("M_a"), CConst(2)), CMul(CConst(1), CConstVar("N_b"))}

SLeaves == {Var("x"), Var("y"), Const(0), Const(2), Const(-3)}
SExprs1 ==
    SLeaves
    \cup {Add(a, b) : a \in SLeaves, b \in SLeaves}
    \cup {Sub(a, b) : a \in SLeaves, b \in SLeaves}
    \cup {Mul(c, a) : c \in SExprCoeffs, a \in SLeaves}
    \cup {Div(a, c) : a \in SLeaves, c \in SExprCoeffs}
    \cup {Mod(a, c) : a \in SLeaves, c \in SExprCoeffs}
SExprs ==
    SExprs1
    \cup {Add(a, b) : a \in SExprs1, b \in SLeaves} \cup {Add(a, b) : a \in SLeaves, b \in SExprs1}
    \cup {Mul(c, a) : c \in {CMul(CConst(2), CConstVar("M_a"))}, a \in SExprs1}
    \cup {Div(a, c) : a \in SExprs1, c \in {CConst(2)}}
    \cup {Mod(a, c) : a \in SExprs1, c \in {CConstVar("M_a")}}

----------------------------------------------------------------------------
(* The simplification specification: one function applied to one input     *)

\* AffineExpr::simplify
SimplifyAffineExpr ==
    /\ r_pc = "start" /\ r_in \in SExprs
    /\ r_out' = AffineExpr_simplify(r_in)
    /\ r_pc' = "simplified"
    /\ UNCHANGED <<r_in, r_text>>

\* Coeff::simplify
SimplifyCoeff ==
    /\ r_pc = "start" /\ r_in \in SCoeffs
    /\ r_out' = Coeff_simplify(r_in)
    /\ r_pc' = "coeff_simplified"
    /\ UNCHANGED <<r_in, r_text>>

\* Coeff::normalize
NormalizeCoeff ==
    /\ r_pc = "start" /\ r_in \in SCoeffs
    /\ r_out' = Coeff_normalize(r_in)
    /\ r_pc' = "normalized"
    /\ UNCHANGED <<r_in, r_text>>

SInit ==
    /\ r_in \in SExprs \cup SCoeffs
    /\ r_text = <<>>
    /\ r_out = PErr
    /\ r_pc = "start"
    /\ PipelineOff
    /\ TransformsOff

SNext ==
    \/ (SimplifyAffineExpr /\ UNCHANGED <<tvars, wvars, pvars, last_add>>)
    \/ (SimplifyCoeff /\ UNCHANGED <<tvars, wvars, pvars, last_add>>)
    \/ (NormalizeCoeff /\ UNCHANGED <<tvars, wvars, pvars, last_add>>)

SpecS == SInit /\ [][SNext]_vars

----------------------------------------------------------------------------
(* Properties of the simplifications, checked under SpecS                  *)

\* the bindings of the variables and of the metaparameters
Bindings ==
    [{"x", "y"} -> {-1, 0, 2}] \X [{"M_a", "N_b"} -> {2, 3}]

\* the product a Coeff stands for, under binding b of the metaparameters
RECURSIVE CoeffValue(_, _)
CoeffValue(c, b) ==
    IF c.tag = "Const" THEN c.val
    ELSE IF c.tag = "ConstVar" THEN b[c.name]
    ELSE CoeffValue(c.lhs, b) * CoeffValue(c.rhs, b)

\* integer division truncating toward zero, and its remainder (i32 `/`, `%`)
TruncDiv(a, d) ==
    LET q == (IF a < 0 THEN -a ELSE a) \div (IF d < 0 THEN -d ELSE d)
    IN  IF (a < 0) # (d < 0) THEN -q ELSE q
TruncRem(a, d) == a - d * TruncDiv(a, d)

\* the integer an AffineExpr stands for, under binding b (of the variables and
\* of the metaparameters)
RECURSIVE Value(_, _)
Value(e, b) ==
    CASE e.tag = "Const" -> e.val
      [] e.tag = "Var" -> b[1][e.name]
      [] e.tag = "Add" -> Value(e.lhs, b) + Value(e.rhs, b)
      [] e.tag = "Sub" -> Value(e.lhs, b) - Value(e.rhs, b)
      [] e.tag = "Mul" -> CoeffValue(e.coeff, b[2]) * Value(e.expr, b)
      [] e.tag = "Div" -> TruncDiv(Value(e.expr, b), CoeffValue(e.coeff, b[2]))
      [] e.tag = "Mod" -> TruncRem(Value(e.expr, b), CoeffValue(e.coeff, b[2]))

\* C24: for every AffineExpr e and every binding, AffineExpr::simplify(e) has
\* the value of e, Add of a constant with a Sub that has a constant operand
\* included; and Coeff::simplify keeps the product a Coeff stands for.
C24_SimplifyPreservesValue ==
    /\ r_pc = "simplified" => \A b \in Bindings : Value(r_out, b) = Value(r_in, b)
    /\ r_pc = "coeff_simplified" =>
           \A b \in Bindings : CoeffValue(r_out, b[2]) = CoeffValue(r_in, b[2])

\* every Mul node with exactly one Const child has it as its left child
RECURSIVE ConstOnLeft(_)
ConstOnLeft(c) ==
    c.tag = "Mul" =>
        /\ (c.rhs.tag = "Const" => c.lhs.tag = "Const")
        /\ ConstOnLeft(c.lhs)
        /\ ConstOnLeft(c.rhs)

\* C27: in Coeff::normalize(c) every Mul node with exactly one Const child has
\* that Const as its left child, and normalize(normalize(c)) = normalize(c).
C27_NormalizeConstLeftIdempotent ==
    r_pc = "normalized" => (ConstOnLeft(r_out) /\ Coeff_normalize(r_out) = r_out)

====
